---- MODULE Spec2Model ----
(***************************************************************************)
(* A model of setup-zig: the pre phase (main.js: version, artifact name,   *)
(* artifact cache, mirror download with minisign verification, build-cache *)
(* restore) and the post phase (post.js: build-cache save), run against a  *)
(* blob cache that persists from one run to the next.                      *)
(*                                                                         *)
(* JavaScript strings are TLA+ strings: concatenation is \o, a substring   *)
(* is SubSeq, so that includes(), startsWith(), the regular expressions    *)
(* and the cache keys are computed on the very characters the code sees.   *)
(***************************************************************************)
EXTENDS Integers, Sequences, FiniteSets, TLC

(***************************************************************************)
(* String primitives of the JavaScript runtime.                            *)
(***************************************************************************)

\* s.charAt(i - 1): the one-character string at position i (1-based), "" outside.
CharAt(s, i) == IF i >= 1 /\ i <= Len(s) THEN SubSeq(s, i, i) ELSE ""

\* s.startsWith(p)
StartsWith(s, p) == Len(p) <= Len(s) /\ SubSeq(s, 1, Len(p)) = p

\* s.startsWith(p, i - 1): p occurs in s at position i
OccursAt(s, p, i) == i >= 1 /\ i + Len(p) - 1 <= Len(s) /\ SubSeq(s, i, i + Len(p) - 1) = p

\* s.includes(p)
Includes(s, p) == \E i \in 1..(Len(s) + 1) : OccursAt(s, p, i)

\* s.substring(i - 1): the suffix of s from position i
From(s, i) == IF i > Len(s) THEN "" ELSE SubSeq(s, i, Len(s))

\* buf.indexOf(c): the first index (0-based) at which the one-character string c
\* occurs in s, or -1.
IndexOf(s, c) ==
  LET hits == {i \in 0..(Len(s) - 1) : CharAt(s, i + 1) = c}
  IN  IF hits = {} THEN -1 ELSE CHOOSE i \in hits : \A j \in hits : i <= j

\* An index of subarray() brought into 0..n: a negative one counts from the end.
ClampIndex(i, n) == IF i < 0 THEN (IF n + i < 0 THEN 0 ELSE n + i) ELSE (IF i > n THEN n ELSE i)

\* buf.subarray(start, end): 0-based, end exclusive
Subarray(buf, start, end) ==
  LET b == ClampIndex(start, Len(buf))
      e == ClampIndex(end, Len(buf))
  IN  IF e <= b THEN "" ELSE SubSeq(buf, b + 1, e)

\* buf.subarray(start)
SubarrayFrom(buf, start) == Subarray(buf, start, Len(buf))

Digits == {"0", "1", "2", "3", "4", "5", "6", "7", "8", "9"}
HexDigits == Digits \cup {"a", "b", "c", "d", "e", "f"}
Letters == {"a", "b", "c", "d", "e", "f", "g", "h", "i", "j", "k", "l", "m",
            "n", "o", "p", "q", "r", "s", "t", "u", "v", "w", "x", "y", "z",
            "A", "B", "C", "D", "E", "F", "G", "H", "I", "J", "K", "L", "M",
            "N", "O", "P", "Q", "R", "S", "T", "U", "V", "W", "X", "Y", "Z"}
\* the class \w of a regular expression
WordChars == Letters \cup Digits \cup {"_"}
\* the class \s of a regular expression, as far as a one-line comment can hold it
SpaceChars == {" ", "\t", "\r"}

\* The position after the longest run of characters of class cls that starts at i
\* (i itself when s has no such character at i): a greedy cls* of a regular expression.
RECURSIVE RunEnd(_, _, _)
RunEnd(s, i, cls) == IF i <= Len(s) /\ CharAt(s, i) \in cls THEN RunEnd(s, i + 1, cls) ELSE i

\* The position after the longest run of characters outside cls that starts at i.
RECURSIVE RunEndNot(_, _, _)
RunEndNot(s, i, cls) ==
  IF i <= Len(s) /\ CharAt(s, i) \notin cls THEN RunEndNot(s, i + 1, cls) ELSE i

DigitValue(c) == CHOOSE n \in 0..9 : CharAt("0123456789", n + 1) = c

\* parseInt(s): the number written by the leading decimal digits of s; NaN is -1.
RECURSIVE ParseDigits(_, _, _)
ParseDigits(s, i, acc) ==
  IF i <= Len(s) /\ CharAt(s, i) \in Digits
  THEN ParseDigits(s, i + 1, acc * 10 + DigitValue(CharAt(s, i)))
  ELSE acc
ParseInt(s) == IF CharAt(s, 1) \in Digits THEN ParseDigits(s, 1, 0) ELSE -1

\* NaN, the number that compares false with every number.
NaN == 0 - 1

\* Number(s), which is also the conversion of a string operand of * and of >: the
\* empty string is 0, a string of decimal digits is the number it writes, and any
\* other string of the inputs is NaN.
Number(s) ==
  IF s = "" THEN 0
  ELSE IF \A i \in 1..Len(s) : CharAt(s, i) \in Digits THEN ParseDigits(s, 1, 0)
  ELSE NaN

\* a * b and a > b on numbers that may be NaN.
Times(a, b) == IF a = NaN \/ b = NaN THEN NaN ELSE a * b
GreaterThan(a, b) == a # NaN /\ b # NaN /\ a > b

\* s.replaceAll(/[^\w]/g, "_")
RECURSIVE ReplaceNonWord(_)
ReplaceNonWord(s) ==
  IF s = "" THEN ""
  ELSE (IF CharAt(s, 1) \in WordChars THEN CharAt(s, 1) ELSE "_") \o ReplaceNonWord(From(s, 2))

(***************************************************************************)
(* common.js: versions and the artifact name.                              *)
(***************************************************************************)

\* A value JavaScript prints as "undefined": a table lookup that found nothing.
Undefined == "undefined"

\* table[key] of an object literal: Undefined when the key is absent
Lookup(table, key) == IF key \in DOMAIN table THEN table[key] ELSE Undefined

\* /^(\d+)\.(\d+)\.(\d+)(?:-dev\.(\d+)\+[0-9a-f]*)?$/.exec(str): the match array
\* <<match[0], match[1], match[2], match[3], match[4]>>, or <<>> for null. A group
\* that took no part in the match is "" (a \d+ group never matches "").
VersionRegexExec(str) ==
  LET a == RunEnd(str, 1, Digits)
      b == RunEnd(str, a + 1, Digits)
      c == RunEnd(str, b + 1, Digits)
      d == RunEnd(str, c + 5, Digits)
      e == RunEnd(str, d + 1, HexDigits)
      three == /\ a > 1 /\ CharAt(str, a) = "."
               /\ b > a + 1 /\ CharAt(str, b) = "."
               /\ c > b + 1
      head == <<SubSeq(str, 1, a - 1), SubSeq(str, a + 1, b - 1), SubSeq(str, b + 1, c - 1)>>
  IN  IF three /\ c = Len(str) + 1
      THEN <<str>> \o head \o <<"">>
      ELSE IF /\ three /\ OccursAt(str, "-dev.", c)
              /\ d > c + 5 /\ CharAt(str, d) = "+"
              /\ e = Len(str) + 1
      THEN <<str>> \o head \o <<SubSeq(str, c + 5, d - 1)>>
      ELSE <<>>

\* What parseVersion returns for a string the regular expression rejects.
Null == [null |-> TRUE]

\* parseVersion(str), from the match array on. The code reads the match array from
\* index 0, which is the whole match: major is parseInt of the whole string, minor
\* of group 1, patch of group 2, and dev of group 3, which is a string and so
\* never === null: dev is never NullDev.
ParsedMatch(match) ==
  IF match = <<>> THEN Null
  ELSE [null  |-> FALSE,
        major |-> ParseInt(match[1]),
        minor |-> ParseInt(match[2]),
        patch |-> ParseInt(match[3]),
        dev   |-> ParseInt(match[4])]

\* parseVersion(str)
ParseVersion(str) == ParsedMatch(VersionRegexExec(str))

\* The number that stands for JavaScript's Infinity: above every dev index.
Infinity == 1000000000

\* The dev field of a version that has none (null), which is no number parseInt
\* returns.
NullDev == 0 - 2

\* A variant of versionLessThan whose last comparison is <= instead of <.
ParsedNotGreater(cur, min) ==
  IF cur = Null \/ min = Null THEN FALSE
  ELSE IF cur.major # min.major THEN cur.major < min.major
  ELSE IF cur.minor # min.minor THEN cur.minor < min.minor
  ELSE IF cur.patch # min.patch THEN cur.patch < min.patch
  ELSE cur.dev <= min.dev

\* versionLessThan, from the two parsed versions on. cur_dev and min_dev are
\* computed and the last comparison reads cur.dev and min.dev instead, as the code
\* does.
ParsedLessThan(cur, min) ==
  IF cur = Null \/ min = Null THEN FALSE
  ELSE LET cur_dev == IF cur.dev = NullDev THEN Infinity ELSE cur.dev
           min_dev == IF min.dev = NullDev THEN Infinity ELSE min.dev
       IN  IF cur.major # min.major THEN cur.major < min.major
           ELSE IF cur.minor # min.minor THEN cur.minor < min.minor
           ELSE IF cur.patch # min.patch THEN cur.patch < min.patch
           ELSE cur.dev < min.dev

\* versionLessThan(cur_ver, min_ver)
VersionLessThan(cur_ver, min_ver) == ParsedLessThan(ParseVersion(cur_ver), ParseVersion(min_ver))

\* The table os.arch() is looked up in.
ArchTable ==
  [k \in {"arm", "arm64", "loong64", "mips", "mipsel", "mips64", "mips64el",
          "ppc64", "riscv64", "s390x", "ia32", "x64"} |->
     CASE k = "arm"      -> "arm"
       [] k = "arm64"    -> "aarch64"
       [] k = "loong64"  -> "loongarch64"
       [] k = "mips"     -> "mips"
       [] k = "mipsel"   -> "mipsel"
       [] k = "mips64"   -> "mips64"
       [] k = "mips64el" -> "mips64el"
       [] k = "ppc64"    -> "powerpc64"
       [] k = "riscv64"  -> "riscv64"
       [] k = "s390x"    -> "s390x"
       [] k = "ia32"     -> "x86"
       [] k = "x64"      -> "x86_64"]

\* The table os.platform() is looked up in.
PlatformTable ==
  [k \in {"android", "freebsd", "sunos", "linux", "darwin", "netbsd", "openbsd", "win32"} |->
     CASE k = "android" -> "android"
       [] k = "freebsd" -> "freebsd"
       [] k = "sunos"   -> "illumos"
       [] k = "linux"   -> "linux"
       [] k = "darwin"  -> "macos"
       [] k = "netbsd"  -> "netbsd"
       [] k = "openbsd" -> "openbsd"
       [] k = "win32"   -> "windows"]

\* A host: what os.platform(), os.arch() and os.endianness() report.
Host(platform, arch, endianness) == [platform |-> platform, arch |-> arch, endianness |-> endianness]

\* The architecture token of getTarballName.
ArchToken(version, host) ==
  LET arch0 == Lookup(ArchTable, host.arch)
      arch1 == IF arch0 = "powerpc64" /\ host.endianness = "LE" THEN "powerpc64le" ELSE arch0
  IN  IF arch1 = "arm" /\ VersionLessThan(version, "0.15.1") THEN "armv7a" ELSE arch1

\* getTarballName(), given the resolved version and the host.
GetTarballName(version, host) ==
  LET arch     == ArchToken(version, host)
      platform == Lookup(PlatformTable, host.platform)
  IN  IF VersionLessThan(version, "0.15.0-dev.631+9a3540d61") /\ VersionLessThan(version, "0.14.1")
      THEN "zig-" \o platform \o "-" \o arch \o "-" \o version
      ELSE "zig-" \o arch \o "-" \o platform \o "-" \o version

\* getTarballExt()
GetTarballExt(host) == IF host.platform = "win32" THEN ".zip" ELSE ".tar.xz"

\* getCachePrefix(): the build-cache key, from the job id of the workflow and the
\* cache-key input.
GetCachePrefix(version, host, job, user_key) ==
  LET tarball_name == GetTarballName(version, host)
      job_name     == ReplaceNonWord(job)
  IN  "setup-zig-cache-v2-" \o job_name \o "-" \o tarball_name \o "-" \o user_key \o "-"

(***************************************************************************)
(* The signature scheme minisign.js rests on (@noble/ed25519 and blake2b), *)
(* and the signed files that exist. A signature is an opaque token of      *)
(* fixed width; the only signatures that verify are those the holder of a  *)
(* key made, which are listed in SignedFiles.                              *)
(***************************************************************************)

\* blake2b(file_content, { dkLen: 64 }): a digest is not the content it digests.
Blake2b(content) == "blake2b<" \o content \o ">"

\* The trust anchor (Zig Software Foundation) and a key an attacker holds:
\* 8-byte key ids, 32-byte public keys.
ZsfKeyId   == "ZSFKEYID"
ZsfPubKey  == "zsf-public-key-0123456789abcdef0"
EvilKeyId  == "EVILKYID"
EvilPubKey == "evil-public-key-0123456789abcde0"

\* Base64 text of bytes, and Buffer.from(text, 'base64'): the text carries padding
\* that decoding drops (decoding stops at the first '=').
B64Encode(bytes) == bytes \o "="
B64Keep(text) == text
B64Decode(text) == IF IndexOf(text, "=") = -1 THEN text ELSE Subarray(text, 0, IndexOf(text, "="))

\* MINISIGN_KEY: algorithm tag, key id, public key
MINISIGN_KEY == B64Encode("Ed" \o ZsfKeyId \o ZsfPubKey)

\* The bytes of the release file of a name, and bytes that are no release.
Payload(file) == "bytes-of-" \o file
EvilPayload == "evil-bytes"

\* The trusted comment minisign writes for a file signed in hashed mode, and the
\* one of the legacy mode (no hashing, no 'hashed' word).
HashedComment(file) == "timestamp:1700000000\tfile:" \o file \o "\thashed"
LegacyComment(file) == "timestamp:1700000000\tfile:" \o file

\* A file somebody signed: the key pair, the algorithm tag, the bytes signed and
\* the trusted comment.
Signed(key_id, key, alg, payload, comment) ==
  [key_id |-> key_id, key |-> key, alg |-> alg, payload |-> payload, comment |-> comment]

\* The names of the release files of the model's world.
ReleaseFiles == <<"zig-linux-x86_64-0.14.0.tar.xz",
                  "zig-x86_64-linux-0.14.1.tar.xz">>

\* Every signature that exists: each release signed by the trust anchor in hashed
\* mode and in legacy mode, and the attacker's own signature over other bytes
\* under each release's name.
SignedFiles ==
  [i \in 1..Len(ReleaseFiles) |->
     Signed(ZsfKeyId, ZsfPubKey, "ED", Payload(ReleaseFiles[i]), HashedComment(ReleaseFiles[i]))]
  \o
  [i \in 1..Len(ReleaseFiles) |->
     Signed(ZsfKeyId, ZsfPubKey, "Ed", Payload(ReleaseFiles[i]), LegacyComment(ReleaseFiles[i]))]
  \o
  [i \in 1..Len(ReleaseFiles) |->
     Signed(EvilKeyId, EvilPubKey, "ED", EvilPayload, HashedComment(ReleaseFiles[i]))]

\* The 64-byte signature tokens of the i-th signed file: over the content, and
\* over signature plus trusted comment.
SigToken(i) == "sig#" \o CharAt("0123456789", (i \div 10) + 1) \o CharAt("0123456789", (i % 10) + 1)
GlobalSigToken(i) == "glb#" \o CharAt("0123456789", (i \div 10) + 1) \o CharAt("0123456789", (i % 10) + 1)

\* What the signer of a file signs: its hash in hashed mode, its bytes otherwise.
SignedContentOf(f) == IF f.alg = "ED" THEN Blake2b(f.payload) ELSE f.payload

\* verify(sig, message, publicKey) of @noble/ed25519: true exactly for a signature
\* the holder of the key made over the message.
Ed25519Verify(sig, message, public_key) ==
  \E i \in 1..Len(SignedFiles) :
     /\ SignedFiles[i].key = public_key
     /\ \/ sig = SigToken(i) /\ message = SignedContentOf(SignedFiles[i])
        \/ sig = GlobalSigToken(i) /\ message = SigToken(i) \o SignedFiles[i].comment

\* The .minisig file minisign writes for the i-th signed file.
MinisigFile(i) ==
  LET f == SignedFiles[i]
  IN  "untrusted comment: signature\n"
      \o B64Encode(f.alg \o f.key_id \o SigToken(i)) \o "\n"
      \o "trusted comment: " \o f.comment \o "\n"
      \o B64Encode(GlobalSigToken(i)) \o "\n"

(***************************************************************************)
(* minisign.js                                                             *)
(***************************************************************************)

\* A thrown Error, as a value.
Throw(message) == [threw |-> TRUE, message |-> message]
\* A returned value.
Return(value) == [threw |-> FALSE, value |-> value]

\* parseKey(key_str)
ParseKey(key_str) ==
  LET key_info == B64Decode(key_str)
      id       == Subarray(key_info, 2, 10)
      key      == SubarrayFrom(key_info, 10)
  IN  IF Len(key) # 32 THEN Throw("invalid public key given")
      ELSE Return([id |-> id, key |-> key])

\* parseSignature(sig_buf). The code reassigns sig_buf as it consumes it; each
\* step below takes what sig_buf is at that point and hands the rest to the next
\* step. The last subarray starts at sig_info_end + 1, as the code has it.
ParseSignature(sig_buf) ==
  LET untrusted_header == "untrusted comment: "
      trusted_header   == "trusted comment: "
      \* the check that all data has been consumed, and the record returned
      Consumed(sig_info, sig_info_end, trusted_comment, buf, global_sig_end) ==
        IF Len(SubarrayFrom(buf, sig_info_end + 1)) # 0
        THEN Throw("invalid minisign signature: trailing bytes")
        ELSE Return([algorithm        |-> Subarray(sig_info, 0, 2),
                     key_id           |-> Subarray(sig_info, 2, 10),
                     signature        |-> SubarrayFrom(sig_info, 10),
                     trusted_comment  |-> trusted_comment,
                     global_signature |-> B64Decode(Subarray(buf, 0, global_sig_end))])
      \* read the global signature
      GlobalSig(sig_info, sig_info_end, trusted_comment, buf) ==
        Consumed(sig_info, sig_info_end, trusted_comment, buf,
                 IF IndexOf(buf, "\n") = -1 THEN Len(buf) ELSE IndexOf(buf, "\n"))
      \* read and skip the trusted comment
      TrustedComment(sig_info, sig_info_end, buf, trusted_comment_end) ==
        GlobalSig(sig_info, sig_info_end, Subarray(buf, 0, trusted_comment_end),
                  SubarrayFrom(buf, trusted_comment_end + 1))
      \* validate the trusted comment header, and skip
      TrustedHeader(sig_info, sig_info_end, buf) ==
        IF Subarray(buf, 0, Len(trusted_header)) # trusted_header
        THEN Throw("invalid minisign signature: bad trusted comment header")
        ELSE TrustedComment(sig_info, sig_info_end, SubarrayFrom(buf, Len(trusted_header)),
                            IndexOf(SubarrayFrom(buf, Len(trusted_header)), "\n"))
      \* read and skip the signature info
      SigInfo(buf, sig_info_end) ==
        TrustedHeader(B64Decode(Subarray(buf, 0, sig_info_end)), sig_info_end,
                      SubarrayFrom(buf, sig_info_end + 1))
      \* skip the untrusted comment
      UntrustedComment(buf) ==
        SigInfo(SubarrayFrom(buf, IndexOf(buf, "\n") + 1),
                IndexOf(SubarrayFrom(buf, IndexOf(buf, "\n") + 1), "\n"))
  IN  IF Subarray(sig_buf, 0, Len(untrusted_header)) # untrusted_header
      THEN Throw("invalid minisign signature: bad untrusted comment header")
      ELSE UntrustedComment(SubarrayFrom(sig_buf, Len(untrusted_header)))

\* A variant of verifySignature that never hashes the content.
VerifyWithoutHash(pubkey, signature, file_content) ==
  IF signature.key_id # pubkey.id THEN FALSE
  ELSE LET signed_content == file_content
           global_signed_content == signature.signature \o signature.trusted_comment
       IN  IF ~Ed25519Verify(signature.signature, signed_content, pubkey.key) THEN FALSE
           ELSE IF ~Ed25519Verify(signature.global_signature, global_signed_content, pubkey.key)
           THEN FALSE
           ELSE TRUE

\* A variant of verifySignature that stops after the primary signature.
VerifyPrimaryOnly(pubkey, signature, file_content) ==
  IF signature.key_id # pubkey.id THEN FALSE
  ELSE LET signed_content == IF signature.algorithm = "ED" THEN Blake2b(file_content)
                             ELSE file_content
       IN  Ed25519Verify(signature.signature, signed_content, pubkey.key)

\* What the promise of verifySignature(pubkey, signature, file_content) resolves
\* to. The function never throws (never rejects).
VerifySignatureResult(pubkey, signature, file_content) ==
  IF signature.key_id # pubkey.id THEN FALSE
  ELSE LET signed_content == IF signature.algorithm = "ED" THEN Blake2b(file_content)
                             ELSE file_content
           global_signed_content == signature.signature \o signature.trusted_comment
       IN  IF ~Ed25519Verify(signature.signature, signed_content, pubkey.key) THEN FALSE
           ELSE IF ~Ed25519Verify(signature.global_signature, global_signed_content, pubkey.key)
           THEN FALSE
           ELSE TRUE

\* verifySignature is an async function: a call evaluates to a promise.
Promise(value) == [promise |-> TRUE, resolved |-> value]
VerifySignature(pubkey, signature, file_content) ==
  Promise(VerifySignatureResult(pubkey, signature, file_content))

(***************************************************************************)
(* main.js: the download from one source.                                  *)
(***************************************************************************)

\* The base URL of the official builds.
CANONICAL == "https://ziglang.org/builds"

\* The mirror list of mirrors.json (first column): community mirrors.
MIRRORS == <<"https://pkg.machengine.org/zig", "https://zigmirror.hryx.net/zig",
             "https://zig.linus.dev/zig">>

\* !value of JavaScript: an object, and so a promise, is truthy whatever it
\* resolves to.
Truthy(value) == IF value.promise THEN TRUE ELSE value.resolved
Not(value) == ~Truthy(value)

\* A variant of the regular expression that lacks its end, \s+hashed$:
\* /^timestamp:\d+\s+file:([^\s]+)/.exec(comment).
UnanchoredCommentRegexExec(comment) ==
  LET a == RunEnd(comment, 11, Digits)
      b == RunEnd(comment, a, SpaceChars)
      c == RunEndNot(comment, b + 5, SpaceChars)
  IN  IF /\ OccursAt(comment, "timestamp:", 1)
         /\ a > 11
         /\ b > a
         /\ OccursAt(comment, "file:", b)
         /\ c > b + 5
      THEN <<SubSeq(comment, 1, c - 1), SubSeq(comment, b + 5, c - 1)>>
      ELSE <<>>

\* /^timestamp:\d+\s+file:([^\s]+)\s+hashed$/.exec(comment): <<match[0], match[1]>>,
\* or <<>> for null.
TrustedCommentRegexExec(comment) ==
  LET a == RunEnd(comment, 11, Digits)
      b == RunEnd(comment, a, SpaceChars)
      c == RunEndNot(comment, b + 5, SpaceChars)
      d == RunEnd(comment, c, SpaceChars)
  IN  IF /\ OccursAt(comment, "timestamp:", 1)
         /\ a > 11
         /\ b > a
         /\ OccursAt(comment, "file:", b)
         /\ c > b + 5
         /\ d > c
         /\ OccursAt(comment, "hashed", d)
         /\ d + 6 = Len(comment) + 1
      THEN <<comment, SubSeq(comment, b + 5, c - 1)>>
      ELSE <<>>

\* What one source answers to the two requests of downloadFromMirror: the tarball
\* (tc.downloadTool throws on a failed download) and the .minisig file.
Answer(tarball, minisig) == [tarball |-> tarball, minisig |-> minisig]

\* The position of a release file's name in ReleaseFiles.
FileIndex(file) == CHOOSE i \in 1..Len(ReleaseFiles) : ReleaseFiles[i] = file

\* Another release than the i-th.
OtherIndex(i) == (i % Len(ReleaseFiles)) + 1

\* The ways a source behaves.
SourceKinds == {"down", "genuine", "tampered", "relabelled", "nosig", "errorpage",
                "forged", "legacy"}

\* The answer of a source of each kind to a request for a release file:
\*   down        no connection
\*   genuine     the release and its signature file
\*   tampered    other bytes, with the release's signature file
\*   relabelled  another release with that release's own signature file
\*   nosig       the release, and no connection for the signature file
\*   errorpage   the release, and an HTML error page for the signature file
\*   forged      other bytes signed with the attacker's key under the release's name
\*   legacy      the release with its legacy-mode signature file
ServedBy(kind, file) ==
  LET i == FileIndex(file)
      n == Len(ReleaseFiles)
  IN  CASE kind = "down"       -> Answer(Throw("connect failed"), Throw("connect failed"))
        [] kind = "genuine"    -> Answer(Return(Payload(file)), Return(MinisigFile(i)))
        [] kind = "tampered"   -> Answer(Return(EvilPayload), Return(MinisigFile(i)))
        [] kind = "relabelled" -> Answer(Return(Payload(ReleaseFiles[OtherIndex(i)])),
                                         Return(MinisigFile(OtherIndex(i))))
        [] kind = "nosig"      -> Answer(Return(Payload(file)), Throw("connect failed"))
        [] kind = "errorpage"  -> Answer(Return(Payload(file)), Return("<html>404</html>"))
        [] kind = "forged"     -> Answer(Return(EvilPayload), Return(MinisigFile(2 * n + i)))
        [] kind = "legacy"     -> Answer(Return(Payload(file)), Return(MinisigFile(n + i)))

\* downloadFromMirror(mirror, tarballFilename), given the answer of the source.
\* The returned path stands for the downloaded file: its origin and its bytes.
DownloadFromMirror(mirror, tarballFilename, answer) ==
  IF answer.tarball.threw THEN answer.tarball
  ELSE IF answer.minisig.threw THEN answer.minisig
  ELSE LET tarballData == answer.tarball.value
           key         == ParseKey(MINISIGN_KEY)
           signature   == ParseSignature(answer.minisig.value)
       IN  IF key.threw THEN key
           ELSE IF signature.threw THEN signature
           ELSE IF Not(VerifySignature(key.value, signature.value, tarballData))
           THEN Throw("signature verification failed")
           ELSE LET match == TrustedCommentRegexExec(signature.value.trusted_comment)
                IN  IF match = <<>> \/ match[2] # tarballFilename
                    THEN Throw("filename verification failed")
                    ELSE Return([mirror |-> mirror, bytes |-> tarballData])

\* The test downloadTarball makes of the mirror input.
IsForbiddenMirror(preferredMirror) ==
  Includes(preferredMirror, "://ziglang.org/") \/ StartsWith(preferredMirror, "ziglang.org/")

(***************************************************************************)
(* The blob cache (@actions/cache): entries are created by a save, found   *)
(* by a restore and never changed.                                         *)
(***************************************************************************)

Entry(key, content) == [key |-> key, content |-> content]

\* The entries restoreCache(paths, primaryKey, restoreKeys) may restore: the entry
\* of the primary key if there is one; otherwise the entries whose key starts with
\* the first restore key that is the prefix of any entry's key.
RECURSIVE PrefixMatches(_, _)
PrefixMatches(cache, restoreKeys) ==
  IF restoreKeys = <<>> THEN {}
  ELSE LET hits == {e \in cache : StartsWith(e.key, Head(restoreKeys))}
       IN  IF hits # {} THEN hits ELSE PrefixMatches(cache, Tail(restoreKeys))

RestoreMatches(cache, primaryKey, restoreKeys) ==
  LET exact == {e \in cache : e.key = primaryKey}
  IN  IF exact # {} THEN exact ELSE PrefixMatches(cache, restoreKeys)

\* The cache after saveCache(paths, key): a key that exists is not written again.
SaveCache(cache, key, content) ==
  IF \E e \in cache : e.key = key THEN cache ELSE cache \cup {Entry(key, content)}

\* A call of the blob cache, as the run's log keeps it.
RestoreCall(what, key, restoreKeys, result) ==
  [op |-> "restore", what |-> what, key |-> key, restoreKeys |-> restoreKeys, result |-> result]
SaveCall(what, key, content, result) ==
  [op |-> "save", what |-> what, key |-> key, content |-> content, result |-> result]

(***************************************************************************)
(* main.js: the keys of the two caches.                                    *)
(***************************************************************************)

\* The restore keys retrieveTarball had before: a version-agnostic prefix (the name
\* without its last dash-separated field) and the bare prefix.
RECURSIVE LastDash(_, _)
LastDash(s, i) == IF i = 0 \/ CharAt(s, i) = "-" THEN i ELSE LastDash(s, i - 1)
BroadTarballRestoreKeys(tarballName) ==
  <<"setup-zig-tarball-" \o SubSeq(tarballName, 1, LastDash(tarballName, Len(tarballName))),
    "setup-zig-tarball-">>

\* The restore keys of the build-cache directory with the broad fallbacks main had
\* before.
BroadBuildCacheRestoreKeys(tarballName) ==
  <<"setup-zig-cache-" \o tarballName, "setup-zig-cache-">>

\* The fallback hierarchy of the cache-key analysis: the same version without the
\* user key, the name without its last dash-separated field, any Zig cache, and
\* the bare prefix.
FallbackHierarchy(tarballName) ==
  <<"setup-zig-cache-" \o tarballName,
    "setup-zig-cache-" \o SubSeq(tarballName, 1, LastDash(tarballName, Len(tarballName)) - 1),
    "setup-zig-cache-zig-",
    "setup-zig-cache-">>

\* retrieveTarball: the key of the compressed artifact and its restore keys.
TarballCacheKey(tarballName) == "setup-zig-tarball-" \o tarballName
TarballRestoreKeys(tarballName) == <<>>

\* main: the restore keys of the build-cache directory.
BuildCacheRestoreKeys(tarballName) == <<"setup-zig-cache-" \o tarballName>>

(***************************************************************************)
(* The inputs of a run.                                                    *)
(***************************************************************************)

\* The number of runs that follow one another on the same blob cache.
MaxRuns == 2

\* Resolved version and host of a run.
Target(version, host) == [version |-> version, host |-> host]
Targets == {Target("0.14.0", Host("linux", "x64", "LE")),
            Target("0.14.1", Host("linux", "x64", "LE"))}

\* github.context.job
Jobs == {"build-test"}

\* The cache-key input.
UserKeys == {"", "matrix1"}

\* The mirror input: none, a community mirror, and addresses of the official site.
MirrorInputs == {"", "https://pkg.machengine.org/zig", "https://ziglang.org/builds",
                 "https://ziglang.org/download", "ziglang.org/builds", "https://ziglang.org"}

\* The value a table (a set of <<argument, value>> pairs) holds for an argument.
At(table, arg) == (CHOOSE p \in table : p[1] = arg)[2]

\* Every address downloadFromMirror can be called with.
Sources == {MIRRORS[i] : i \in 1..Len(MIRRORS)} \cup {CANONICAL} \cup (MirrorInputs \ {""})

\* downloadFromMirror's outcome for every source, every way a source behaves and
\* every release file asked for: the function, evaluated once.
Outcomes ==
  {<<<<mirror, kind, file>>, DownloadFromMirror(mirror, file, ServedBy(kind, file))>> :
     mirror \in Sources, kind \in SourceKinds, file \in {ReleaseFiles[i] : i \in 1..Len(ReleaseFiles)}}

\* The permutations of a sequence: the results the shuffle can produce.
RECURSIVE Shuffles(_)
Shuffles(seq) ==
  IF seq = <<>> THEN {<<>>}
  ELSE UNION {{<<seq[i]>> \o rest :
                 rest \in Shuffles([j \in 1..(Len(seq) - 1) |->
                                          IF j < i THEN seq[j] ELSE seq[j + 1]])} :
              i \in 1..Len(seq)}

(***************************************************************************)
(* The state: one run after another (pre phase, then post phase) on a blob *)
(* cache that persists.                                                    *)
(***************************************************************************)

VARIABLES
  run,              \* the number of the run
  pc,               \* the position of the run in main.js and post.js
  version,          \* what getVersion() returns in this run
  host,             \* the host of the run
  tarballName,      \* main: what getTarballName() returned
  job,              \* github.context.job, once read
  user_key,         \* the cache-key input, once read
  use_cache,        \* the use-cache input, once read
  preferredMirror,  \* downloadTarball: the mirror input
  shuffled,         \* downloadTarball: shuffledMirrors
  tried,            \* downloadTarball: the attempts so far, in order (source, threw)
  last,             \* downloadTarball: the last attempt (source, what it served, outcome)
  dl,               \* retrieveTarball: the outcome of downloadTarball
  slot,             \* the bytes at tarballCachePath
  call,             \* the latest call of the blob cache in this run
  failed,           \* core.setFailed was called
  installed,        \* the bytes whose extraction was added to PATH
  zigCache,         \* the build-cache directory of the runner
  blobCache,        \* the entries of the blob cache
  size,             \* post.js main: what totalSize measured
  sizeLimit,        \* post.js main: the cache-size-limit input in bytes
  cached_version,   \* common.js: _cached_version
  world,            \* the two version indexes and the manifest, as they are now
  effects,          \* the index fetches and the manifest reads of the invocation so far
  calls,            \* the number of getVersion() calls of the invocation so far
  arg,              \* the arguments of a function applied on its own
  out               \* what that function returned

inputs == <<job, user_key, use_cache>>
target == <<version, host, tarballName>>
fetch == <<preferredMirror, shuffled, tried, last, dl>>
post == <<size, sizeLimit>>
pure == <<arg, out>>
resolve == <<cached_version, world, effects, calls>>
vars == <<run, pc, target, inputs, fetch, slot, call, failed, installed, zigCache, blobCache, post,
          resolve, pure>>

None == [none |-> TRUE]
NoBytes == ""

\* null in _cached_version, as JavaScript prints it.
NullVersion == "null"

\* No index fetched and the manifest not read.
NoEffects == [fetches |-> <<>>, reads |-> 0]

\* The build-cache directory: absent on a fresh runner, or the entries it holds;
\* a directory that exists can have lost its read permission.
NoDirectory == [exists |-> FALSE, readable |-> FALSE, entries |-> {}]
Directory(entries) == [exists |-> TRUE, readable |-> TRUE, entries |-> entries]
Unreadable(dir) == [dir EXCEPT !.readable = FALSE]

\* An entry of the build-cache directory and its size in bytes.
DirEntry(name, bytes) == [name |-> name, size |-> bytes]

\* What a build writes into the build-cache directory, in bytes: two MiB.
BuildSizes == {2 * 1024 * 1024}

\* The cache-size-limit input, in MiB: no limit, a limit below what a build
\* writes, and the limit that is exactly what a build writes.
SizeLimitInputs == {"0", "1", "2"}

\* post.js: the size before totalSize has measured it.
NotMeasured == 0 - 2

\* A variant of the access test that passes whenever the directory exists.
AccessibleIfExists(dir) == dir.exists

\* fs.access(cachePath, fs.constants.R_OK) does not throw.
Accessible(dir) == dir.exists /\ dir.readable

\* totalSize(p): the sum of the sizes of the files below p.
RECURSIVE SumOfSizes(_)
SumOfSizes(entries) ==
  IF entries = {} THEN 0
  ELSE SumOfSizes(entries \ {CHOOSE e \in entries : TRUE}) + (CHOOSE e \in entries : TRUE).size
TotalSize(dir) == SumOfSizes(dir.entries)

\* A variant of the test of the limit that also holds at the limit and for the
\* limit 0.
ReachesLimit(dirSize, limit) == GreaterThan(dirSize + 1, limit)

\* post.js main: sizeLimit !== 0 && size > sizeLimit
ExceedsLimit(dirSize, limit) == limit # 0 /\ GreaterThan(dirSize, limit)

\* A variant of rmDirContents that removes the directory with its entries.
RmDir(dir) == NoDirectory

\* rmDirContents(dir): every entry is removed, the directory stays.
RmDirContents(dir) == [dir EXCEPT !.entries = {}]

Init ==
  /\ run = 1
  /\ pc = "idle"
  /\ version = "" /\ host = Host("", "", "") /\ tarballName = ""
  /\ job = "" /\ user_key = "" /\ use_cache = FALSE
  /\ preferredMirror = ""
  /\ shuffled = <<>>
  /\ tried = <<>>
  /\ last = None
  /\ dl = None
  /\ slot = NoBytes
  /\ call = None
  /\ failed = FALSE
  /\ installed = NoBytes
  /\ zigCache = NoDirectory
  /\ blobCache = {}
  /\ size = NotMeasured /\ sizeLimit = 0
  /\ cached_version = NullVersion /\ world = None /\ effects = NoEffects /\ calls = 0
  /\ arg = None
  /\ out = None

\* main: the file asked of the sources.
tarballFilename == tarballName \o GetTarballExt(host)

\* A variant of the start in which a getVersion() that throws is not caught by
\* main(): the run is not marked failed.
RunStartUncaught ==
  /\ pc = "idle"
  /\ \/ /\ \E t \in Targets :
             /\ version' = t.version
             /\ host' = t.host
             /\ tarballName' = GetTarballName(t.version, t.host)
        /\ pc' = "retrieve"
     \/ /\ pc' = "pre_done"
        /\ UNCHANGED target
  /\ UNCHANGED <<pure, resolve, post, run, inputs, fetch, slot, call, failed, installed, zigCache,
                 blobCache>>

\* The workflow starts the action: main() resolves the version and the name of
\* the tarball; a getVersion() that throws ends main() in its catch.
RunStart ==
  /\ pc = "idle"
  /\ \/ /\ \E t \in Targets :
             /\ version' = t.version
             /\ host' = t.host
             /\ tarballName' = GetTarballName(t.version, t.host)
        /\ failed' = failed
        /\ pc' = "retrieve"
     \/ /\ failed' = TRUE
        /\ pc' = "pre_done"
        /\ UNCHANGED target
  /\ UNCHANGED <<pure, resolve, post, run, inputs, fetch, slot, call, installed, zigCache, blobCache>>

\* A variant of the restore of the compressed artifact without the return of the
\* hit: the download follows in every case.
RetrieveRestoreNoReturn ==
  /\ pc = "retrieve"
  /\ LET cacheKey    == TarballCacheKey(tarballName)
         restoreKeys == TarballRestoreKeys(tarballName)
     IN  \/ \E e \in RestoreMatches(blobCache, cacheKey, restoreKeys) :
              /\ call' = RestoreCall("tarball", cacheKey, restoreKeys, Return(e.key))
              /\ slot' = e.content
         \/ /\ RestoreMatches(blobCache, cacheKey, restoreKeys) = {}
            /\ call' = RestoreCall("tarball", cacheKey, restoreKeys, Return(Undefined))
            /\ slot' = slot
         \/ /\ call' = RestoreCall("tarball", cacheKey, restoreKeys, Throw("cache service"))
            /\ slot' = slot
  /\ pc' = "download"
  /\ UNCHANGED <<pure, resolve, post, run, target, inputs, fetch, failed, installed, zigCache, blobCache>>

\* A variant of the restore of the compressed artifact without its try/catch: a
\* restore that throws ends main() in its catch.
RetrieveRestoreNoCatch ==
  /\ pc = "retrieve"
  /\ LET cacheKey    == TarballCacheKey(tarballName)
         restoreKeys == TarballRestoreKeys(tarballName)
     IN  \/ \E e \in RestoreMatches(blobCache, cacheKey, restoreKeys) :
              /\ call' = RestoreCall("tarball", cacheKey, restoreKeys, Return(e.key))
              /\ slot' = e.content
              /\ failed' = failed
              /\ pc' = "extract"
         \/ /\ RestoreMatches(blobCache, cacheKey, restoreKeys) = {}
            /\ call' = RestoreCall("tarball", cacheKey, restoreKeys, Return(Undefined))
            /\ slot' = slot
            /\ failed' = failed
            /\ pc' = "download"
         \/ /\ call' = RestoreCall("tarball", cacheKey, restoreKeys, Throw("cache service"))
            /\ slot' = slot
            /\ failed' = TRUE
            /\ pc' = "pre_done"
  /\ UNCHANGED <<pure, resolve, post, run, target, inputs, fetch, installed, zigCache, blobCache>>

\* retrieveTarball, up to the download: the restore of the compressed artifact,
\* which hits, misses or throws.
RetrieveRestore ==
  /\ pc = "retrieve"
  /\ LET cacheKey    == TarballCacheKey(tarballName)
         restoreKeys == TarballRestoreKeys(tarballName)
     IN  \/ \E e \in RestoreMatches(blobCache, cacheKey, restoreKeys) :
              /\ call' = RestoreCall("tarball", cacheKey, restoreKeys, Return(e.key))
              /\ slot' = e.content
              /\ pc' = "extract"
         \/ /\ RestoreMatches(blobCache, cacheKey, restoreKeys) = {}
            /\ call' = RestoreCall("tarball", cacheKey, restoreKeys, Return(Undefined))
            /\ slot' = slot
            /\ pc' = "download"
         \/ /\ call' = RestoreCall("tarball", cacheKey, restoreKeys, Throw("cache service"))
            /\ slot' = slot
            /\ pc' = "download"
  /\ UNCHANGED <<pure, resolve, post, run, target, inputs, fetch, failed, installed, zigCache, blobCache>>

\* downloadTarball, up to the first attempt: the mirror input is read; a forbidden
\* one throws, another one is the only source, and with none the list is shuffled.
DownloadBegin ==
  /\ pc = "download"
  /\ \E m \in MirrorInputs :
       /\ preferredMirror' = m
       /\ IF IsForbiddenMirror(m)
          THEN /\ dl' = Throw("'https://ziglang.org' cannot be used as mirror override")
               /\ shuffled' = shuffled
               /\ pc' = "downloaded"
          ELSE IF m # ""
          THEN /\ dl' = dl
               /\ shuffled' = shuffled
               /\ pc' = "override"
          ELSE /\ dl' = dl
               /\ shuffled' \in Shuffles(MIRRORS)
               /\ pc' = IF MIRRORS = <<>> THEN "canonical" ELSE "mirrors"
  /\ UNCHANGED <<pure, resolve, post, run, target, inputs, tried, last, slot, call, failed, installed, zigCache,
                 blobCache>>

\* One attempt: downloadFromMirror on a source that behaves in some way.
Attempt(mirror, kind) ==
  [mirror |-> mirror, kind |-> kind, result |-> At(Outcomes, <<mirror, kind, tarballFilename>>)]

\* What downloadTarball has seen of an attempt once it is over.
Tried(a) == [mirror |-> a.mirror, threw |-> a.result.threw]

\* A variant of the override attempt that falls back on the official site when
\* the override fails.
AttemptOverrideWithFallback ==
  /\ pc = "override"
  /\ \E kind \in SourceKinds :
       LET a == Attempt(preferredMirror, kind)
       IN  /\ last' = a
           /\ tried' = Append(tried, Tried(a))
           /\ IF a.result.threw
              THEN dl' = dl /\ pc' = "canonical"
              ELSE dl' = a.result /\ pc' = "downloaded"
  /\ UNCHANGED <<pure, resolve, post, run, target, inputs, preferredMirror, shuffled, slot, call, failed, installed,
                 zigCache, blobCache>>

\* A variant of the loop without its try/catch: the failure of a mirror is the
\* failure of downloadTarball.
AttemptMirrorNoCatch ==
  /\ pc = "mirrors"
  /\ Len(tried) < Len(shuffled)
  /\ \E kind \in SourceKinds :
       LET a == Attempt(shuffled[Len(tried) + 1], kind)
       IN  /\ last' = a
           /\ tried' = Append(tried, Tried(a))
           /\ dl' = a.result
  /\ pc' = "downloaded"
  /\ UNCHANGED <<pure, resolve, post, run, target, inputs, preferredMirror, shuffled, slot, call, failed, installed,
                 zigCache, blobCache>>

\* A variant of the loop that does not advance: every turn attempts the first of
\* the shuffled mirrors.
AttemptMirrorAgain ==
  /\ pc = "mirrors"
  /\ Len(tried) < Len(shuffled)
  /\ \E kind \in SourceKinds :
       LET a == Attempt(shuffled[1], kind)
       IN  /\ last' = a
           /\ tried' = Append(tried, Tried(a))
           /\ IF a.result.threw
              THEN /\ dl' = dl
                   /\ pc' = IF Len(tried) + 1 = Len(shuffled) THEN "canonical" ELSE "mirrors"
              ELSE /\ dl' = a.result
                   /\ pc' = "downloaded"
  /\ UNCHANGED <<pure, resolve, post, run, target, inputs, preferredMirror, shuffled, slot, call, failed, installed,
                 zigCache, blobCache>>

\* A variant of the loop that leaves at the first failure (break for continue):
\* the official site is next although mirrors remain.
AttemptMirrorBreak ==
  /\ pc = "mirrors"
  /\ Len(tried) < Len(shuffled)
  /\ \E kind \in SourceKinds :
       LET a == Attempt(shuffled[Len(tried) + 1], kind)
       IN  /\ last' = a
           /\ tried' = Append(tried, Tried(a))
           /\ IF a.result.threw
              THEN dl' = dl /\ pc' = "canonical"
              ELSE dl' = a.result /\ pc' = "downloaded"
  /\ UNCHANGED <<pure, resolve, post, run, target, inputs, preferredMirror, shuffled, slot, call, failed, installed,
                 zigCache, blobCache>>

\* downloadTarball with a mirror override: the one attempt, whose outcome is the
\* outcome of downloadTarball.
AttemptOverride ==
  /\ pc = "override"
  /\ \E kind \in SourceKinds :
       LET a == Attempt(preferredMirror, kind)
       IN  /\ last' = a
           /\ tried' = Append(tried, Tried(a))
           /\ dl' = a.result
  /\ pc' = "downloaded"
  /\ UNCHANGED <<pure, resolve, post, run, target, inputs, preferredMirror, shuffled, slot, call, failed, installed,
                 zigCache, blobCache>>

\* One turn of the loop over the shuffled mirrors: a success returns, a failure is
\* logged and the loop goes on; after the last mirror the official site is next.
AttemptMirror ==
  /\ pc = "mirrors"
  /\ Len(tried) < Len(shuffled)
  /\ \E kind \in SourceKinds :
       LET a == Attempt(shuffled[Len(tried) + 1], kind)
       IN  /\ last' = a
           /\ tried' = Append(tried, Tried(a))
           /\ IF a.result.threw
              THEN /\ dl' = dl
                   /\ pc' = IF Len(tried) + 1 = Len(shuffled) THEN "canonical" ELSE "mirrors"
              ELSE /\ dl' = a.result
                   /\ pc' = "downloaded"
  /\ UNCHANGED <<pure, resolve, post, run, target, inputs, preferredMirror, shuffled, slot, call, failed, installed,
                 zigCache, blobCache>>

\* The last-ditch attempt at the official site.
AttemptCanonical ==
  /\ pc = "canonical"
  /\ \E kind \in SourceKinds :
       LET a == Attempt(CANONICAL, kind)
       IN  /\ last' = a
           /\ tried' = Append(tried, Tried(a))
           /\ dl' = a.result
  /\ pc' = "downloaded"
  /\ UNCHANGED <<pure, resolve, post, run, target, inputs, preferredMirror, shuffled, slot, call, failed, installed,
                 zigCache, blobCache>>

\* A variant of retrieveTarball that goes on to the copy and the save when
\* downloadTarball has thrown.
RetrieveFinishAnyway ==
  /\ pc = "downloaded"
  /\ slot' = IF dl.threw THEN slot ELSE dl.value.bytes
  /\ failed' = failed
  /\ pc' = "tarball_save"
  /\ preferredMirror' = ""
  /\ shuffled' = <<>>
  /\ tried' = <<>>
  /\ last' = None
  /\ dl' = None
  /\ UNCHANGED <<pure, resolve, post, run, target, inputs, call, installed, zigCache, blobCache>>

\* retrieveTarball after downloadTarball, whose locals are gone: a throw of
\* downloadTarball ends main() in its catch; otherwise the file is copied to
\* tarballCachePath.
RetrieveFinish ==
  /\ pc = "downloaded"
  /\ IF dl.threw
     THEN /\ failed' = TRUE
          /\ pc' = "pre_done"
          /\ slot' = slot
     ELSE /\ slot' = dl.value.bytes
          /\ failed' = failed
          /\ pc' = "tarball_save"
  /\ preferredMirror' = ""
  /\ shuffled' = <<>>
  /\ tried' = <<>>
  /\ last' = None
  /\ dl' = None
  /\ UNCHANGED <<pure, resolve, post, run, target, inputs, call, installed, zigCache, blobCache>>

\* retrieveTarball, the save: the file at tarballCachePath is saved under the key
\* of the restore; a save that throws is logged.
RetrieveSave ==
  /\ pc = "tarball_save"
  /\ LET cacheKey == TarballCacheKey(tarballName)
     IN  \/ /\ blobCache' = SaveCache(blobCache, cacheKey, slot)
            /\ call' = SaveCall("tarball", cacheKey, slot,
                                IF blobCache' = blobCache THEN Throw("already exists")
                                ELSE Return(cacheKey))
         \/ /\ blobCache' = blobCache
            /\ call' = SaveCall("tarball", cacheKey, slot, Throw("cache service"))
  /\ pc' = "extract"
  /\ UNCHANGED <<pure, resolve, post, run, target, inputs, fetch, slot, failed, installed, zigCache>>

\* main: the tarball is extracted and the directory added to PATH.
ExtractAndAddPath ==
  /\ pc = "extract"
  /\ installed' = slot
  /\ pc' = "buildcache"
  /\ UNCHANGED <<pure, resolve, post, run, target, inputs, fetch, slot, call, failed, zigCache, blobCache>>

\* The outputs cache-hit and cache-key-used of the action (core.setOutput).
Outputs(hit, key) ==
  [name \in {"cache-hit", "cache-key-used"} |-> IF name = "cache-hit" THEN hit ELSE key]

\* A variant of the outputs that reports every restore that did not throw as a
\* hit.
CacheOutputsOfReturn(result) ==
  IF result.threw THEN Outputs("false", "error")
  ELSE Outputs("true", result.value)

\* main: the outputs set after the restore of the build cache, for a key
\* returned, for none, and for a restore that threw.
CacheOutputs(result) ==
  IF result.threw THEN Outputs("false", "error")
  ELSE IF result.value # Undefined /\ result.value # "" THEN Outputs("true", result.value)
  ELSE Outputs("false", "none")

\* main: the use-cache input is read; with it, the build-cache key is made from the
\* job and the cache-key input, the restore of the build-cache directory hits,
\* misses or throws, and the two outputs are set.
BuildCacheRestore ==
  /\ pc = "buildcache"
  /\ use_cache' \in BOOLEAN
  /\ IF use_cache'
     THEN /\ job' \in Jobs
          /\ user_key' \in UserKeys
          /\ LET cacheKey    == GetCachePrefix(version, host, job', user_key')
                 restoreKeys == BuildCacheRestoreKeys(tarballName)
             IN  \/ \E e \in RestoreMatches(blobCache, cacheKey, restoreKeys) :
                      /\ call' = RestoreCall("zig-cache", cacheKey, restoreKeys, Return(e.key))
                      /\ zigCache' = Directory(e.content)
                 \/ /\ RestoreMatches(blobCache, cacheKey, restoreKeys) = {}
                    /\ call' = RestoreCall("zig-cache", cacheKey, restoreKeys, Return(Undefined))
                    /\ zigCache' = zigCache
                 \/ /\ call' = RestoreCall("zig-cache", cacheKey, restoreKeys, Throw("cache service"))
                    /\ zigCache' = zigCache
          /\ out' = CacheOutputs(call'.result)
     ELSE UNCHANGED <<job, user_key, call, zigCache, out>>
  /\ pc' = "pre_done"
  /\ UNCHANGED <<arg, resolve, post, run, target, fetch, slot, failed, installed, blobCache>>

\* Between the phases: the steps of the job. After a failed pre phase they are
\* skipped; otherwise they may build with the installed compiler, which writes
\* into the build-cache directory, and they may take the read permission of the
\* directory away.
JobSteps ==
  /\ pc = "pre_done"
  /\ \/ /\ ~failed
        /\ \E bytes \in BuildSizes :
             zigCache' = Directory(zigCache.entries \cup {DirEntry(tarballName, bytes)})
     \/ /\ ~failed
        /\ zigCache.exists
        /\ zigCache' = Unreadable(zigCache)
     \/ zigCache' = zigCache
  /\ pc' = "post"
  /\ UNCHANGED <<pure, resolve, post, run, target, inputs, fetch, slot, call, failed, installed, blobCache>>

\* A variant of post.js main that does not test the use-cache input.
PostMainWithoutFlag ==
  /\ pc = "post"
  /\ use_cache' \in (IF failed THEN BOOLEAN ELSE {use_cache})
  /\ IF Accessible(zigCache)
     THEN /\ size' = TotalSize(zigCache)
          /\ \E input \in SizeLimitInputs : sizeLimit' = Times(Times(Number(input), 1024), 1024)
          /\ zigCache' = IF ExceedsLimit(size', sizeLimit') THEN RmDirContents(zigCache)
                          ELSE zigCache
          /\ pc' = "post_save"
     ELSE /\ pc' = "run_done"
          /\ UNCHANGED <<post, zigCache>>
  /\ UNCHANGED <<pure, resolve, run, target, job, user_key, fetch, slot, call, failed, installed, blobCache>>

\* In PostMain the deletions of rmDirContents are taken to succeed, as one step;
\* SpecClear has them one by one.
\* post.js main, up to the save: the inputs are those of the workflow (a pre phase
\* that failed has not read them). With use-cache and a readable build-cache
\* directory, the directory is measured and, over the limit, emptied; without, the
\* phase is over.
PostMain ==
  /\ pc = "post"
  /\ use_cache' \in (IF failed THEN BOOLEAN ELSE {use_cache})
  /\ IF use_cache' /\ Accessible(zigCache)
     THEN /\ size' = TotalSize(zigCache)
          /\ \E input \in SizeLimitInputs : sizeLimit' = Times(Times(Number(input), 1024), 1024)
          /\ zigCache' = IF ExceedsLimit(size', sizeLimit') THEN RmDirContents(zigCache)
                          ELSE zigCache
          /\ pc' = "post_save"
     ELSE /\ pc' = "run_done"
          /\ UNCHANGED <<post, zigCache>>
  /\ UNCHANGED <<pure, resolve, run, target, job, user_key, fetch, slot, call, failed, installed, blobCache>>

\* post.js main, the save: the directory is saved under the build-cache key; a
\* save that throws is logged. The version of the key is that of the pre phase:
\* the indexes are taken not to change within a run here, and SpecPhases has
\* the two resolutions of a job.
PostSave ==
  /\ pc = "post_save"
  /\ job' \in (IF job # "" THEN {job} ELSE Jobs)
  /\ user_key' \in (IF job # "" THEN {user_key} ELSE UserKeys)
  /\ LET cacheKey == GetCachePrefix(version, host, job', user_key')
     IN  \/ /\ blobCache' = SaveCache(blobCache, cacheKey, zigCache.entries)
            /\ call' = SaveCall("zig-cache", cacheKey, zigCache.entries,
                                IF blobCache' = blobCache THEN Throw("already exists")
                                ELSE Return(cacheKey))
         \/ /\ blobCache' = blobCache
            /\ call' = SaveCall("zig-cache", cacheKey, zigCache.entries, Throw("cache service"))
  /\ pc' = "run_done"
  /\ UNCHANGED <<pure, resolve, post, run, target, use_cache, fetch, slot, failed, installed, zigCache>>

\* The next run starts on a fresh runner; only the blob cache is kept.
NextRun ==
  /\ pc = "run_done"
  /\ run < MaxRuns
  /\ run' = run + 1
  /\ pc' = "idle"
  /\ version' = "" /\ host' = Host("", "", "") /\ tarballName' = ""
  /\ job' = "" /\ user_key' = "" /\ use_cache' = FALSE
  /\ slot' = NoBytes
  /\ call' = None
  /\ failed' = FALSE
  /\ installed' = NoBytes
  /\ zigCache' = NoDirectory
  /\ size' = NotMeasured /\ sizeLimit' = 0
  /\ out' = None
  /\ UNCHANGED <<fetch, blobCache, resolve, arg>>

Next ==
  \/ RunStart
  \/ RetrieveRestore
  \/ DownloadBegin
  \/ AttemptOverride
  \/ AttemptMirror
  \/ AttemptCanonical
  \/ RetrieveFinish
  \/ RetrieveSave
  \/ ExtractAndAddPath
  \/ BuildCacheRestore
  \/ JobSteps
  \/ PostMain
  \/ PostSave
  \/ NextRun

Spec == Init /\ [][Next]_vars

(***************************************************************************)
(* getTarballName on its own: applied to two resolved versions and hosts.  *)
(***************************************************************************)

\* Resolved versions: releases and dev builds on both sides of the cutovers.
NamingVersions == {"0.14.0", "0.14.1", "0.15.1", "0.15.0-dev.630+9a3540d61",
                   "0.15.0-dev.631+9a3540d61", "0.15.1-dev.5+9a3540d61"}

\* Hosts: what os.platform(), os.arch() and os.endianness() report on machines
\* Node.js runs on, those outside the two tables included.
NamingPlatforms == {"linux", "darwin", "win32", "aix"}
NamingArchs == {<<"x64", "LE">>, <<"arm", "LE">>, <<"arm64", "LE">>, <<"ppc64", "LE">>,
                <<"ppc64", "BE">>, <<"ppc", "BE">>, <<"s390", "BE">>}
NamingTargets ==
  {Target(v, Host(p, a[1], a[2])) : v \in NamingVersions, p \in NamingPlatforms, a \in NamingArchs}

InitNaming ==
  /\ run = 1
  /\ pc = "naming"
  /\ version = "" /\ host = Host("", "", "") /\ tarballName = ""
  /\ job = "" /\ user_key = "" /\ use_cache = FALSE
  /\ preferredMirror = ""
  /\ shuffled = <<>>
  /\ tried = <<>>
  /\ last = None
  /\ dl = None
  /\ slot = NoBytes
  /\ call = None
  /\ failed = FALSE
  /\ installed = NoBytes
  /\ zigCache = NoDirectory
  /\ blobCache = {}
  /\ size = NotMeasured /\ sizeLimit = 0
  /\ cached_version = NullVersion /\ world = None /\ effects = NoEffects /\ calls = 0
  /\ arg \in NamingTargets \X NamingTargets
  /\ out = None

\* getTarballName() on each of the two.
NameBoth ==
  /\ pc = "naming"
  /\ out = None
  /\ out' = <<GetTarballName(arg[1].version, arg[1].host),
              GetTarballName(arg[2].version, arg[2].host)>>
  /\ UNCHANGED <<run, pc, target, inputs, fetch, slot, call, failed, installed, zigCache,
                 blobCache, post, resolve, arg>>

NextNaming == NameBoth

SpecNaming == InitNaming /\ [][NextNaming]_vars

(***************************************************************************)
(* versionLessThan on its own: applied to every pair of three versions.    *)
(***************************************************************************)

\* Well-formed versions: releases whose numbers have one and two digits, and dev
\* builds of two of them whose dev indexes have one, two and three digits.
OrderVersions == {"0.9.0", "0.10.0", "0.14.0", "0.14.1", "0.15.0", "1.0.0",
                  "0.14.0-dev.9+0b5bb1b1b", "0.14.0-dev.10+1f2e3d4c5",
                  "0.15.0-dev.630+9a3540d61", "0.15.0-dev.631+9a3540d61"}

InitOrder ==
  /\ run = 1
  /\ pc = "order"
  /\ version = "" /\ host = Host("", "", "") /\ tarballName = ""
  /\ job = "" /\ user_key = "" /\ use_cache = FALSE
  /\ preferredMirror = ""
  /\ shuffled = <<>>
  /\ tried = <<>>
  /\ last = None
  /\ dl = None
  /\ slot = NoBytes
  /\ call = None
  /\ failed = FALSE
  /\ installed = NoBytes
  /\ zigCache = NoDirectory
  /\ blobCache = {}
  /\ size = NotMeasured /\ sizeLimit = 0
  /\ cached_version = NullVersion /\ world = None /\ effects = NoEffects /\ calls = 0
  /\ arg \in OrderVersions \X OrderVersions \X OrderVersions
  /\ out = None

\* versionLessThan(arg[i], arg[j]) for every pair of the three.
CompareAll ==
  /\ pc = "order"
  /\ out = None
  /\ out' = [i \in 1..3 |-> [j \in 1..3 |-> VersionLessThan(arg[i], arg[j])]]
  /\ UNCHANGED <<run, pc, target, inputs, fetch, slot, call, failed, installed, zigCache,
                 blobCache, post, resolve, arg>>

NextOrder == CompareAll

SpecOrder == InitOrder /\ [][NextOrder]_vars

(***************************************************************************)
(* verifySignature on its own: applied to a key, a signature record and    *)
(* the bytes of a file.                                                    *)
(***************************************************************************)

\* Parsed keys: the trust anchor and the attacker's key.
VerifyKeys == {[id |-> ZsfKeyId, key |-> ZsfPubKey], [id |-> EvilKeyId, key |-> EvilPubKey]}

\* Signature records: every combination of an algorithm tag, a key id, the
\* primary signature of one signed file, and the trusted comment and the global
\* signature of signed files that may be others.
VerifyRecords ==
  {[algorithm        |-> alg,
    key_id           |-> id,
    signature        |-> SigToken(i),
    trusted_comment  |-> SignedFiles[j].comment,
    global_signature |-> GlobalSigToken(g)] :
     alg \in {"ED", "Ed", "XX"}, id \in {ZsfKeyId, EvilKeyId},
     i \in 1..Len(SignedFiles), j \in 1..Len(SignedFiles), g \in 1..Len(SignedFiles)}

\* The bytes verified: each release, and bytes that are no release.
VerifyContents == {Payload(ReleaseFiles[i]) : i \in 1..Len(ReleaseFiles)} \cup {EvilPayload}

InitVerify ==
  /\ run = 1
  /\ pc = "verify"
  /\ version = "" /\ host = Host("", "", "") /\ tarballName = ""
  /\ job = "" /\ user_key = "" /\ use_cache = FALSE
  /\ preferredMirror = ""
  /\ shuffled = <<>>
  /\ tried = <<>>
  /\ last = None
  /\ dl = None
  /\ slot = NoBytes
  /\ call = None
  /\ failed = FALSE
  /\ installed = NoBytes
  /\ zigCache = NoDirectory
  /\ blobCache = {}
  /\ size = NotMeasured /\ sizeLimit = 0
  /\ cached_version = NullVersion /\ world = None /\ effects = NoEffects /\ calls = 0
  /\ arg \in VerifyKeys \X VerifyRecords \X VerifyContents
  /\ out = None

\* verifySignature(pubkey, signature, file_content): the promise it returns.
VerifyCall ==
  /\ pc = "verify"
  /\ out = None
  /\ out' = VerifySignature(arg[1], arg[2], arg[3])
  /\ UNCHANGED <<run, pc, target, inputs, fetch, slot, call, failed, installed, zigCache,
                 blobCache, post, resolve, arg>>

NextVerify == VerifyCall

SpecVerify == InitVerify /\ [][NextVerify]_vars

(***************************************************************************)
(* parseSignature on its own: applied to signature files as minisign       *)
(* writes them, with one byte of a header changed, or with bytes after the *)
(* last line.                                                              *)
(***************************************************************************)

\* s with its k-th character replaced by c.
ReplaceAt(s, k, c) == SubSeq(s, 1, k - 1) \o c \o SubSeq(s, k + 1, Len(s))

\* The two fixed headers of a signature file.
UntrustedHeader == "untrusted comment: "
TrustedHeader == "trusted comment: "

\* The text of the untrusted comment, the ends of the last line, the bytes a
\* header byte is changed to (neither occurs in a header) and the bytes that
\* follow the last line.
UntrustedComments == {"signature", "signature from minisign secret key"}
FinalNewlines == {"", "\n"}
ChangedBytes == {"#", "\n"}
ExtraBytes == {"x", "\n", "xy", "0123456789", "0123456789a", "0123456789abcdefghij"}

\* A signature file: the untrusted comment, the signed file whose signature it
\* holds, the end of its last line, the header byte changed (header "none" when
\* none is) and the bytes that follow the last line.
Container(untrusted, signed, nl, header, pos, byte, extra) ==
  [untrusted |-> untrusted, signed |-> signed, nl |-> nl, header |-> header, pos |-> pos,
   byte |-> byte, extra |-> extra]

ParseInputs ==
  {Container(u, i, nl, "none", 0, "", "") :
     u \in UntrustedComments, i \in 1..Len(SignedFiles), nl \in FinalNewlines}
  \cup
  {Container(u, i, nl, "untrusted", k, c, "") :
     u \in UntrustedComments, i \in 1..Len(SignedFiles), nl \in FinalNewlines,
     k \in 1..Len(UntrustedHeader), c \in ChangedBytes}
  \cup
  {Container(u, i, nl, "trusted", k, c, "") :
     u \in UntrustedComments, i \in 1..Len(SignedFiles), nl \in FinalNewlines,
     k \in 1..Len(TrustedHeader), c \in ChangedBytes}
  \cup
  {Container(u, i, "\n", "none", 0, "", e) :
     u \in UntrustedComments, i \in 1..Len(SignedFiles), e \in ExtraBytes}

\* A header of the file, with its byte changed if it is the one that is.
HeaderOf(a, which, text) == IF a.header = which THEN ReplaceAt(text, a.pos, a.byte) ELSE text

\* The bytes of the file.
SigBuf(a) ==
  HeaderOf(a, "untrusted", UntrustedHeader) \o a.untrusted \o "\n"
  \o B64Encode(SignedFiles[a.signed].alg \o SignedFiles[a.signed].key_id \o SigToken(a.signed)) \o "\n"
  \o HeaderOf(a, "trusted", TrustedHeader) \o SignedFiles[a.signed].comment \o "\n"
  \o B64Encode(GlobalSigToken(a.signed)) \o a.nl \o a.extra

InitParse ==
  /\ run = 1
  /\ pc = "parse"
  /\ version = "" /\ host = Host("", "", "") /\ tarballName = ""
  /\ job = "" /\ user_key = "" /\ use_cache = FALSE
  /\ preferredMirror = ""
  /\ shuffled = <<>>
  /\ tried = <<>>
  /\ last = None
  /\ dl = None
  /\ slot = NoBytes
  /\ call = None
  /\ failed = FALSE
  /\ installed = NoBytes
  /\ zigCache = NoDirectory
  /\ blobCache = {}
  /\ size = NotMeasured /\ sizeLimit = 0
  /\ cached_version = NullVersion /\ world = None /\ effects = NoEffects /\ calls = 0
  /\ arg \in ParseInputs
  /\ out = None

\* parseSignature(sig_buf) on the bytes of the file.
ParseCall ==
  /\ pc = "parse"
  /\ out = None
  /\ out' = ParseSignature(SigBuf(arg))
  /\ UNCHANGED <<run, pc, target, inputs, fetch, slot, call, failed, installed, zigCache,
                 blobCache, post, resolve, arg>>

NextParse == ParseCall

SpecParse == InitParse /\ [][NextParse]_vars

(***************************************************************************)
(* common.js: getVersion, with the version indexes and the manifest it     *)
(* reads.                                                                  *)
(***************************************************************************)

VERSIONS_JSON == "https://ziglang.org/download/index.json"
MACH_VERSIONS_JSON == "https://pkg.machengine.org/zig/index.json"

\* \s of a regular expression applied to a text of several lines.
WhiteSpace == SpaceChars \cup {"\n"}

\* /\.\s*<name>\s*=\s*"(.*?)"/ tried at position i of zon, step by step: the dot
\* and the name, the equals sign, the opening quote, and the shortest run up to a
\* quote on the same line. The result is <<match[0], match[1]>>, or <<>>.
FieldCapture(zon, i, open, close) ==
  IF CharAt(zon, close) = "\"" THEN <<SubSeq(zon, i, close), SubSeq(zon, open, close - 1)>>
  ELSE <<>>
FieldQuote(zon, i, q) ==
  IF CharAt(zon, q) = "\"" THEN FieldCapture(zon, i, q + 1, RunEndNot(zon, q + 1, {"\"", "\n"}))
  ELSE <<>>
FieldEquals(zon, i, e) ==
  IF CharAt(zon, e) = "=" THEN FieldQuote(zon, i, RunEnd(zon, e + 1, WhiteSpace)) ELSE <<>>
FieldName(zon, name, i, n) ==
  IF OccursAt(zon, name, n) THEN FieldEquals(zon, i, RunEnd(zon, n + Len(name), WhiteSpace))
  ELSE <<>>
FieldMatchAt(zon, name, i) ==
  IF CharAt(zon, i) = "." THEN FieldName(zon, name, i, RunEnd(zon, i + 1, WhiteSpace)) ELSE <<>>

\* The match of the regular expression at the leftmost position that has one.
RECURSIVE FieldRegexExec(_, _, _)
FieldRegexExec(zon, name, i) ==
  IF i > Len(zon) THEN <<>>
  ELSE IF FieldMatchAt(zon, name, i) # <<>> THEN FieldMatchAt(zon, name, i)
  ELSE FieldRegexExec(zon, name, i + 1)

MACH_ZIG_VERSION_REGEX(zon) == FieldRegexExec(zon, "mach_zig_version", 1)
MINIMUM_ZIG_VERSION_REGEX(zon) == FieldRegexExec(zon, "minimum_zig_version", 1)

\* version.split('.')
RECURSIVE Split(_)
SplitAt(s, dot) ==
  IF dot > Len(s) THEN <<s>> ELSE <<SubSeq(s, 1, dot - 1)>> \o Split(From(s, dot + 1))
Split(s) == SplitAt(s, RunEndNot(s, 1, {"."}))

\* Number(parts[i]) of the destructured parts; a missing part is undefined, whose
\* number is NaN.
NumberPart(parts, i) == IF i <= Len(parts) THEN Number(parts[i]) ELSE NaN

\* a == b on numbers that may be NaN.
NumberEquals(a, b) == a # NaN /\ b # NaN /\ a = b

\* What an async function that fetches returns or throws, and what it fetched.
Fetched(urls, result) == [fetches |-> urls, result |-> result]

\* getMachVersion(raw)
GetMachVersion(raw, w) ==
  Fetched(<<MACH_VERSIONS_JSON>>,
          IF ~w.mach.ok THEN Throw("fetch failed")
          ELSE IF raw \notin DOMAIN w.mach.versions
          THEN Throw("Mach nominated version '" \o raw \o "' not found")
          ELSE Return(w.mach.versions[raw]))

\* getMasterVersion()
GetMasterVersion(w) ==
  Fetched(<<VERSIONS_JSON>>,
          IF ~w.versions.ok THEN Throw("fetch failed")
          ELSE IF \A i \in 1..Len(w.versions.keys) : w.versions.keys[i] # "master"
          THEN Throw("Cannot read properties of undefined (reading 'version')")
          ELSE Return(w.versions.master))

\* A variant of the loop of getLatestVersion: the entry the index lists last.
RECURSIVE LastListed(_, _, _, _, _, _)
LastListed(keys, i, latest, latest_major, latest_minor, latest_patch) ==
  IF i > Len(keys) THEN latest
  ELSE LastListed(keys, i + 1, keys[i], latest_major, latest_minor, latest_patch)

\* getLatestVersion(): the loop over the keys of the index, in their order.
RECURSIVE LatestLoop(_, _, _, _, _, _)
LatestCompare(keys, i, latest, latest_major, latest_minor, latest_patch, major, minor, patch) ==
  IF \/ latest = NullVersion
     \/ GreaterThan(major, latest_major)
     \/ (NumberEquals(major, latest_major) /\ GreaterThan(minor, latest_minor))
     \/ (/\ NumberEquals(major, latest_major) /\ NumberEquals(minor, latest_minor)
         /\ GreaterThan(patch, latest_patch))
  THEN LatestLoop(keys, i + 1, keys[i], major, minor, patch)
  ELSE LatestLoop(keys, i + 1, latest, latest_major, latest_minor, latest_patch)
LatestParts(keys, i, latest, latest_major, latest_minor, latest_patch, parts) ==
  LatestCompare(keys, i, latest, latest_major, latest_minor, latest_patch,
                NumberPart(parts, 1), NumberPart(parts, 2), NumberPart(parts, 3))
LatestLoop(keys, i, latest, latest_major, latest_minor, latest_patch) ==
  IF i > Len(keys) THEN latest
  ELSE IF keys[i] = "master"
  THEN LatestLoop(keys, i + 1, latest, latest_major, latest_minor, latest_patch)
  ELSE LatestParts(keys, i, latest, latest_major, latest_minor, latest_patch, Split(keys[i]))

\* getLatestVersion()
GetLatestVersion(w) ==
  Fetched(<<VERSIONS_JSON>>,
          IF ~w.versions.ok THEN Throw("fetch failed")
          ELSE Return(LatestLoop(w.versions.keys, 1, NullVersion, NaN, NaN, NaN)))

\* What a call of getVersion leaves in _cached_version, what it returns or throws,
\* the indexes it fetched and the number of times it read the manifest.
Resolved(cached, result, urls, zonReads) ==
  [cached |-> cached, result |-> result, fetches |-> urls, reads |-> zonReads]

\* _cached_version = await f(); return _cached_version: a throw of f leaves
\* _cached_version as it was, which is null.
Assigned(f, urls, zonReads) ==
  Resolved(IF f.result.threw THEN NullVersion ELSE f.result.value, f.result,
           urls \o f.fetches, zonReads)

\* getVersion, from the test of raw against 'master' on.
FromSpecifier(raw, w, urls, zonReads) ==
  IF raw = "master" THEN Assigned(GetMasterVersion(w), urls, zonReads)
  ELSE IF raw = "latest" THEN Assigned(GetLatestVersion(w), urls, zonReads)
  ELSE IF Includes(raw, "mach") THEN Assigned(GetMachVersion(raw, w), urls, zonReads)
  ELSE Assigned(Fetched(<<>>, Return(raw)), urls, zonReads)

\* getVersion with a manifest that names a nominated version: what getMachVersion
\* throws is thrown inside the try of the manifest, whose catch goes on with
\* 'latest'.
FromMachField(w, f) ==
  IF f.result.threw THEN FromSpecifier("latest", w, f.fetches, 1)
  ELSE Assigned(f, <<>>, 1)

\* getVersion with an empty specifier and a manifest that was read: the two
\* matches in their order.
FromZon(w, mach_match, minimum_match) ==
  IF mach_match # <<>> THEN FromMachField(w, GetMachVersion(mach_match[2], w))
  ELSE IF minimum_match # <<>> THEN Resolved(minimum_match[2], Return(minimum_match[2]), <<>>, 1)
  ELSE FromSpecifier("latest", w, <<>>, 1)

\* getVersion with an empty specifier.
FromManifest(w) ==
  IF ~w.zon.readable THEN FromSpecifier("latest", w, <<>>, 1)
  ELSE FromZon(w, MACH_ZIG_VERSION_REGEX(w.zon.text), MINIMUM_ZIG_VERSION_REGEX(w.zon.text))

\* A variant of getVersion without the test of _cached_version.
GetVersionUncached(cached, raw, w) ==
  IF raw = "" THEN FromManifest(w) ELSE FromSpecifier(raw, w, <<>>, 0)

\* getVersion()
GetVersion(cached, raw, w) ==
  IF cached \notin {NullVersion, Undefined} THEN Resolved(cached, Return(cached), <<>>, 0)
  ELSE IF raw = "" THEN FromManifest(w)
  ELSE FromSpecifier(raw, w, <<>>, 0)

(***************************************************************************)
(* getVersion in one invocation: calls of getVersion, between which the    *)
(* indexes and the manifest may change.                                    *)
(***************************************************************************)

\* The number of getVersion() calls of an invocation.
MaxCalls == 2

\* The version input.
RawInputs == {"", "master", "latest", "0.14.1", "2024.11.0-mach", "2099.1.0-mach"}

\* The version index: whether it can be fetched, its keys in the order of the
\* document, and the version of its master entry.
VersionIndex(keys, master) == [ok |-> TRUE, keys |-> keys, master |-> master]
NoIndex == [ok |-> FALSE, keys |-> <<>>, master |-> ""]
VersionIndexes ==
  {VersionIndex(keys, "0.16.0-dev.27+83f773fc6") :
     keys \in Shuffles(<<"master", "0.9.1", "0.10.0", "0.10.1">>)
              \cup Shuffles(<<"master", "0.14.1", "1.0.0">>)}
  \cup {NoIndex}

\* The index of the nominated versions: whether it can be fetched, and the version
\* of each name.
MachIndex(versions) == [ok |-> TRUE, versions |-> versions]
NoMachIndex == [ok |-> FALSE, versions |-> <<>>]
MachIndexes ==
  {MachIndex([name \in {"2024.11.0-mach", "mach-latest"} |-> "0.14.0-dev.2577+271452d22"]),
   NoMachIndex}

\* build.zig.zon: absent, or its text.
Manifest(text) == [readable |-> TRUE, text |-> text]
NoManifest == [readable |-> FALSE, text |-> ""]
ZonMinimum == ".{\n    .name = .app,\n    .minimum_zig_version = \"0.13.0\",\n}"
ZonMachThenMinimum ==
  ".{\n    .mach_zig_version = \"2024.11.0-mach\",\n    .minimum_zig_version = \"0.13.0\",\n}"
ZonMinimumThenMach ==
  ".{\n    .minimum_zig_version = \"0.13.0\",\n    .mach_zig_version=\"2024.11.0-mach\",\n}"
ZonUnknownMach == ".{\n    .mach_zig_version = \"2099.1.0-mach\",\n}"
ZonNeither == ".{\n    .name = .app,\n    .version = \"0.1.0\",\n}"
Manifests ==
  {Manifest(text) : text \in {ZonMinimum, ZonMachThenMinimum, ZonMinimumThenMach, ZonUnknownMach,
                              ZonNeither}}
  \cup {NoManifest}

World(versions, mach, zon) == [versions |-> versions, mach |-> mach, zon |-> zon]
Worlds == {World(v, m, z) : v \in VersionIndexes, m \in MachIndexes, z \in Manifests}

\* What the indexes and the manifest can have become during the invocation: a
\* new release and a new master, the nominated names moved on, and the manifest
\* rewritten.
LaterWorlds ==
  {World(VersionIndex(<<"master", "1.2.0", "0.10.1">>, "0.17.0-dev.1+0123456789"),
         MachIndex([name \in {"2024.11.0-mach", "mach-latest", "2099.1.0-mach"} |->
                      "0.15.0-dev.1+aaaaaaaaa"]),
         Manifest(".{ .minimum_zig_version = \"0.15.1\" }")),
   World(NoIndex, NoMachIndex, NoManifest)}

InitVersion ==
  /\ run = 1
  /\ pc = "version"
  /\ version = "" /\ host = Host("", "", "") /\ tarballName = ""
  /\ job = "" /\ user_key = "" /\ use_cache = FALSE
  /\ preferredMirror = ""
  /\ shuffled = <<>>
  /\ tried = <<>>
  /\ last = None
  /\ dl = None
  /\ slot = NoBytes
  /\ call = None
  /\ failed = FALSE
  /\ installed = NoBytes
  /\ zigCache = NoDirectory
  /\ blobCache = {}
  /\ size = NotMeasured /\ sizeLimit = 0
  /\ cached_version = NullVersion
  /\ world \in Worlds
  /\ effects = NoEffects
  /\ calls = 0
  /\ arg \in RawInputs
  /\ out = None

\* Everything getVersion does not touch.
untouched == <<run, target, inputs, fetch, slot, call, installed, zigCache, blobCache, post>>

\* One call of getVersion() by main; a throw ends main() in its catch.
GetVersionCall ==
  /\ pc = "version"
  /\ calls < MaxCalls
  /\ cached_version' = GetVersion(cached_version, arg, world).cached
  /\ out' = GetVersion(cached_version, arg, world).result
  /\ effects' = [fetches |-> effects.fetches \o GetVersion(cached_version, arg, world).fetches,
                 reads   |-> effects.reads + GetVersion(cached_version, arg, world).reads]
  /\ calls' = calls + 1
  /\ failed' = out'.threw
  /\ pc' = IF out'.threw THEN "aborted" ELSE "version"
  /\ UNCHANGED <<untouched, world, arg>>

\* Between two calls the indexes and the manifest change.
WorldChange ==
  /\ pc = "version"
  /\ calls >= 1
  /\ world' \in LaterWorlds \ {world}
  /\ UNCHANGED <<untouched, pc, failed, cached_version, effects, calls, pure>>

NextVersion ==
  \/ GetVersionCall
  \/ WorldChange

SpecVersion == InitVersion /\ [][NextVersion]_vars

(***************************************************************************)
(* The two phases of one job as two invocations: each resolves the version *)
(* for itself, and the indexes may change while the job's steps run.       *)
(***************************************************************************)

\* The indexes after the steps of the job: as they were, or changed; the
\* manifest is the file of the checkout and stays.
IndexesAfter(w) == {w} \cup {World(l.versions, l.mach, w.zon) : l \in LaterWorlds}

InitPhases ==
  /\ run = 1
  /\ pc = "phase_pre"
  /\ version = "" /\ host = Host("linux", "x64", "LE") /\ tarballName = ""
  /\ job = "build-test" /\ user_key = "" /\ use_cache = TRUE
  /\ preferredMirror = ""
  /\ shuffled = <<>>
  /\ tried = <<>>
  /\ last = None
  /\ dl = None
  /\ slot = NoBytes
  /\ call = None
  /\ failed = FALSE
  /\ installed = NoBytes
  /\ zigCache = NoDirectory
  /\ blobCache = {}
  /\ size = NotMeasured /\ sizeLimit = 0
  /\ cached_version = NullVersion
  /\ world \in Worlds
  /\ effects = NoEffects
  /\ calls = 0
  /\ arg \in RawInputs
  /\ out = None

\* main.js in its own process: getVersion() starts from an empty
\* _cached_version; a throw ends main() in its catch, otherwise the restore of the
\* build cache is asked under getCachePrefix(). out keeps that call.
PhasePre ==
  /\ pc = "phase_pre"
  /\ cached_version' = GetVersion(NullVersion, arg, world).cached
  /\ IF GetVersion(NullVersion, arg, world).result.threw
     THEN /\ failed' = TRUE
          /\ UNCHANGED <<target, call, out>>
     ELSE /\ failed' = FALSE
          /\ version' = cached_version'
          /\ host' = host
          /\ tarballName' = GetTarballName(version', host)
          /\ call' = RestoreCall("zig-cache", GetCachePrefix(version', host, job, user_key),
                                 BuildCacheRestoreKeys(tarballName'), Return(Undefined))
          /\ out' = call'
  /\ pc' = "phase_job"
  /\ UNCHANGED <<run, inputs, fetch, slot, installed, zigCache, blobCache, post, world, effects,
                 calls, arg>>

\* The steps of the job, during which the indexes may change.
PhaseJob ==
  /\ pc = "phase_job"
  /\ world' \in IndexesAfter(world)
  /\ pc' = "phase_post"
  /\ UNCHANGED <<run, target, inputs, fetch, slot, call, failed, installed, zigCache, blobCache,
                 post, cached_version, effects, calls, pure>>

\* post.js in its own process: getCachePrefix() calls getVersion(), which starts
\* from an empty _cached_version again; a throw ends main() in its catch,
\* otherwise the save is issued under the key.
PhasePost ==
  /\ pc = "phase_post"
  /\ cached_version' = GetVersion(NullVersion, arg, world).cached
  /\ IF GetVersion(NullVersion, arg, world).result.threw
     THEN /\ failed' = TRUE
          /\ UNCHANGED <<target, call>>
     ELSE /\ failed' = failed
          /\ version' = cached_version'
          /\ host' = host
          /\ tarballName' = GetTarballName(version', host)
          /\ call' = SaveCall("zig-cache", GetCachePrefix(version', host, job, user_key), {},
                              Return(GetCachePrefix(version', host, job, user_key)))
  /\ pc' = "phase_done"
  /\ UNCHANGED <<run, inputs, fetch, slot, installed, zigCache, blobCache, post, world, effects,
                 calls, pure>>

NextPhases ==
  \/ PhasePre
  \/ PhaseJob
  \/ PhasePost

SpecPhases == InitPhases /\ [][NextPhases]_vars

(***************************************************************************)
(* The clearing of an oversized build-cache directory, deletion by         *)
(* deletion: rmDirContents starts one fs.rm for every entry and awaits     *)
(* Promise.all of them, which resolves when all have, and rejects when the *)
(* first of them does.                                                     *)
(***************************************************************************)

\* The entries of the directory that is cleared.
ClearEntries ==
  {DirEntry("o", 2 * 1024 * 1024), DirEntry("h", 2 * 1024 * 1024), DirEntry("z", 2 * 1024 * 1024)}

InitClear ==
  /\ run = 1
  /\ pc = "clear_start"
  /\ version = "0.14.1" /\ host = Host("linux", "x64", "LE")
  /\ tarballName = GetTarballName(version, host)
  /\ job = "build-test" /\ user_key = "" /\ use_cache = TRUE
  /\ preferredMirror = ""
  /\ shuffled = <<>>
  /\ tried = <<>>
  /\ last = None
  /\ dl = None
  /\ slot = NoBytes
  /\ call = None
  /\ failed = FALSE
  /\ installed = NoBytes
  /\ zigCache \in {Directory(entries) : entries \in (SUBSET ClearEntries) \ {{}}}
  /\ blobCache \in {{}, {Entry(GetCachePrefix(version, host, job, user_key), ClearEntries)}}
  /\ size = TotalSize(zigCache) /\ sizeLimit = 1024 * 1024
  /\ cached_version = NullVersion /\ world = None /\ effects = NoEffects /\ calls = 0
  /\ arg = None
  /\ out = None

\* rmDirContents: readdir, and one fs.rm started for every entry. out keeps the
\* state of each.
RmDirContentsStart ==
  /\ pc = "clear_start"
  /\ ExceedsLimit(size, sizeLimit)
  /\ out' = [e \in zigCache.entries |-> "pending"]
  /\ pc' = "clearing"
  /\ UNCHANGED <<run, target, inputs, fetch, slot, call, failed, installed, zigCache, blobCache,
                 post, resolve, arg>>

\* One fs.rm completes: the entry is gone. The deletions that are under way go
\* on after main() has ended in its catch.
RmCompletes ==
  /\ pc \in {"clearing", "clear_failed"}
  /\ \E e \in zigCache.entries :
       /\ out[e] = "pending"
       /\ out' = [out EXCEPT ![e] = "done"]
       /\ zigCache' = Directory(zigCache.entries \ {e})
  /\ UNCHANGED <<run, pc, target, inputs, fetch, slot, call, failed, installed, blobCache, post,
                 resolve, arg>>

\* One fs.rm fails: the entry stays. The first failure rejects Promise.all, the
\* throw leaves rmDirContents and ends main() in its catch.
RmFails ==
  /\ pc \in {"clearing", "clear_failed"}
  /\ \E e \in zigCache.entries :
       /\ out[e] = "pending"
       /\ out' = [out EXCEPT ![e] = "failed"]
  /\ failed' = TRUE
  /\ pc' = "clear_failed"
  /\ UNCHANGED <<run, target, inputs, fetch, slot, call, installed, zigCache, blobCache, post,
                 resolve, arg>>

\* A variant of Promise.all that resolves with the first deletion that
\* completes.
FirstDeleted ==
  /\ pc = "clearing"
  /\ \E e \in DOMAIN out : out[e] = "done"
  /\ pc' = "clear_save"
  /\ UNCHANGED <<run, target, inputs, fetch, slot, call, failed, installed, zigCache, blobCache,
                 post, resolve, pure>>

\* Promise.all resolves: every deletion has completed, rmDirContents returns.
AllDeleted ==
  /\ pc = "clearing"
  /\ \A e \in DOMAIN out : out[e] = "done"
  /\ pc' = "clear_save"
  /\ UNCHANGED <<run, target, inputs, fetch, slot, call, failed, installed, zigCache, blobCache,
                 post, resolve, pure>>

\* post.js main, the save that follows rmDirContents.
ClearSave ==
  /\ pc = "clear_save"
  /\ LET cacheKey == GetCachePrefix(version, host, job, user_key)
     IN  \/ /\ blobCache' = SaveCache(blobCache, cacheKey, zigCache.entries)
            /\ call' = SaveCall("zig-cache", cacheKey, zigCache.entries,
                                IF blobCache' = blobCache THEN Throw("already exists")
                                ELSE Return(cacheKey))
         \/ /\ blobCache' = blobCache
            /\ call' = SaveCall("zig-cache", cacheKey, zigCache.entries, Throw("cache service"))
  /\ pc' = "clear_done"
  /\ UNCHANGED <<run, target, inputs, fetch, slot, failed, installed, zigCache, post, resolve,
                 pure>>

NextClear ==
  \/ RmDirContentsStart
  \/ RmCompletes
  \/ RmFails
  \/ AllDeleted
  \/ ClearSave

SpecClear == InitClear /\ [][NextClear]_vars

(***************************************************************************)
(* Properties of the download.                                             *)
(***************************************************************************)

\* The mirrors of the list, as a set.
MirrorSet == {MIRRORS[i] : i \in 1..Len(MIRRORS)}

\* Every mirror of the list and then the official site were attempted, and all
\* of them failed.
Exhausted ==
  /\ Len(tried) = Len(MIRRORS) + 1
  /\ {tried[i].mirror : i \in 1..Len(MIRRORS)} = MirrorSet
  /\ tried[Len(tried)].mirror = CANONICAL
  /\ \A i \in 1..Len(tried) : tried[i].threw

\* What the last source attempted served.
Served == ServedBy(last.kind, tarballFilename)

\* The last source attempted served both files and its signature file parses.
ServedSignature ==
  /\ ~Served.tarball.threw
  /\ ~Served.minisig.threw
  /\ ~ParseSignature(Served.minisig.value).threw

\* verifySignature, applied to the trust anchor, the parsed signature and the
\* bytes the last source served, resolves to true.
ServedVerifies ==
  /\ ServedSignature
  /\ VerifySignatureResult(ParseKey(MINISIGN_KEY).value,
                           ParseSignature(Served.minisig.value).value,
                           Served.tarball.value)

\* Every character of s is of class cls.
AllIn(s, cls) == \A i \in 1..Len(s) : CharAt(s, i) \in cls

\* comment is 'timestamp:<digits> file:<name> hashed', the gaps being white space.
HasForm(comment, name) ==
  /\ StartsWith(comment, "timestamp:")
  /\ \E d \in {n \in 1..(Len(comment) - 10) : AllIn(SubSeq(comment, 11, 10 + n), Digits)} :
       \E w \in {n \in 1..(Len(comment) - 10 - d) :
                   AllIn(SubSeq(comment, 11 + d, 10 + d + n), SpaceChars)} :
          LET rest == From(comment, 11 + d + w)
              tail == From(rest, 6 + Len(name))
          IN  /\ StartsWith(rest, "file:" \o name)
              /\ Len(tail) > 6
              /\ From(tail, Len(tail) - 5) = "hashed"
              /\ AllIn(SubSeq(tail, 1, Len(tail) - 6), SpaceChars)

\* A source of this kind, asked for file, serves both files, its signature file
\* parses, and the trusted comment of the signature is not of the form for file.
WrongComment(kind, file) ==
  /\ ~ServedBy(kind, file).tarball.threw
  /\ ~ServedBy(kind, file).minisig.threw
  /\ ~ParseSignature(ServedBy(kind, file).minisig.value).threw
  /\ ~HasForm(ParseSignature(ServedBy(kind, file).minisig.value).value.trusted_comment, file)

\* Whether that is so, for every kind of source and every release file: the
\* predicate, evaluated once.
WrongCommentServed ==
  {<<<<kind, file>>, WrongComment(kind, file)>> :
     kind \in SourceKinds, file \in {ReleaseFiles[i] : i \in 1..Len(ReleaseFiles)}}

\* The last attempt was one of the loop over the shuffled mirrors.
InLoop == last # None /\ preferredMirror = "" /\ last.mirror # CANONICAL

\* C1: downloadFromMirror returns a path only if verifySignature evaluated to
\* true for the bytes the source served; when it evaluates to false (or was never
\* reached), the attempt fails and downloadTarball does not return that tarball.
C1_ReturnsOnlyVerified ==
  (last # None /\ ~ServedVerifies) =>
     /\ last.result.threw
     /\ (pc = "downloaded" => dl.threw)

\* C1: a source served other bytes with the genuine signature file of the
\* release, and downloadTarball returned them.
C1_TamperedReturned ==
  /\ pc = "downloaded"
  /\ last # None
  /\ last.kind = "tampered"
  /\ ~dl.threw
  /\ dl.value.bytes = EvilPayload

\* C2: an attempt on a source whose signature's trusted comment is not of the form
\* 'timestamp:<digits> file:<name> hashed' with <name> the file asked for fails,
\* also when the signature verifies; in the loop over the shuffled mirrors the
\* loop then goes on to the next candidate and downloadTarball has not ended.
C2_WrongCommentFails ==
  (last # None /\ At(WrongCommentServed, <<last.kind, tarballFilename>>)) =>
     /\ last.result.threw
     /\ (InLoop => pc \in {"mirrors", "canonical"} /\ dl = None)

\* C2: a mirror of the loop served another release with its own valid signature,
\* the attempt failed and mirrors remain to be tried.
C2_RelabelledSkipped ==
  /\ InLoop
  /\ last.kind = "relabelled"
  /\ ServedVerifies
  /\ last.result.threw
  /\ pc = "mirrors"
  /\ Len(tried) < Len(shuffled)

\* C3: without a mirror override, the official site is no shuffled candidate, it
\* is attempted only as the last attempt, after every mirror of the list was
\* attempted and failed, hence at most once; and when it then serves the release
\* with its signature, downloadTarball returns that tarball.
C3_CanonicalLast ==
  preferredMirror = "" =>
    /\ \A i \in 1..Len(shuffled) : shuffled[i] # CANONICAL
    /\ \A i \in 1..Len(tried) :
         tried[i].mirror = CANONICAL =>
           /\ i = Len(tried)
           /\ i = Len(MIRRORS) + 1
           /\ {tried[j].mirror : j \in 1..(i - 1)} = MirrorSet
           /\ \A j \in 1..(i - 1) : tried[j].threw
    /\ (/\ pc = "downloaded"
        /\ last # None
        /\ last.mirror = CANONICAL
        /\ last.kind = "genuine") =>
          /\ ~dl.threw
          /\ dl.value = [mirror |-> CANONICAL, bytes |-> Payload(tarballFilename)]

\* C3: every mirror failed and the official site served the release.
C3_CanonicalSucceeded ==
  /\ pc = "downloaded"
  /\ preferredMirror = ""
  /\ Len(tried) = Len(MIRRORS) + 1
  /\ \A i \in 1..Len(MIRRORS) : tried[i].threw
  /\ last.mirror = CANONICAL
  /\ last.kind = "genuine"
  /\ ~dl.threw

\* C4: a failed attempt of the loop over the shuffled mirrors does not end
\* downloadTarball; downloadTarball fails only when the override is rejected or
\* its one attempt failed, or when every mirror and then the official site failed.
C4_OnlyExhaustionFails ==
  /\ (InLoop /\ last.result.threw) => (pc \in {"mirrors", "canonical"} /\ dl = None)
  /\ (pc = "downloaded" /\ dl.threw) =>
        IF preferredMirror # ""
        THEN \/ tried = <<>> /\ IsForbiddenMirror(preferredMirror)
             \/ tried = <<[mirror |-> preferredMirror, threw |-> TRUE]>>
        ELSE Exhausted /\ dl = last.result

\* C4: downloadTarball failed after every mirror and the official site had failed,
\* the last mirror with a signature file that does not parse.
C4_AllFailed ==
  /\ pc = "downloaded"
  /\ preferredMirror = ""
  /\ dl.threw
  /\ Exhausted
  /\ last.kind = "errorpage"

\* C5: with a mirror override that passes the test of the official site,
\* downloadTarball makes one attempt, at the override: nothing is shuffled, no
\* other source is attempted, and the outcome of that attempt, failure included,
\* is the outcome of downloadTarball.
C5_OverrideOnly ==
  (preferredMirror # "" /\ ~IsForbiddenMirror(preferredMirror)) =>
     /\ shuffled = <<>>
     /\ Len(tried) <= 1
     /\ \A i \in 1..Len(tried) : tried[i].mirror = preferredMirror
     /\ pc \in {"override", "downloaded"}
     /\ (pc = "downloaded" => Len(tried) = 1 /\ tried[1].threw = dl.threw /\ dl = last.result)

\* C5: the attempt at the override failed, and that is how downloadTarball ended.
C5_OverrideFailed ==
  /\ pc = "downloaded"
  /\ preferredMirror = "https://pkg.machengine.org/zig"
  /\ Len(tried) = 1
  /\ dl.threw

\* The host of a URL: what lies between the scheme, if there is one, and the
\* first slash after it.
UrlHost(url) ==
  LET rest == IF StartsWith(url, "https://") THEN From(url, 9)
              ELSE IF StartsWith(url, "http://") THEN From(url, 8)
              ELSE url
  IN  IF IndexOf(rest, "/") = -1 THEN rest ELSE Subarray(rest, 0, IndexOf(rest, "/"))

\* A URL of the official site.
IsOfficialSite(url) == UrlHost(url) = "ziglang.org"

\* C6: a mirror override that is a URL of the official site ziglang.org is
\* rejected with an error, and no download is attempted from any source.
C6_OfficialSiteRejected ==
  IsOfficialSite(preferredMirror) =>
     /\ tried = <<>>
     /\ pc = "downloaded"
     /\ dl.threw

\* C6: the override 'https://ziglang.org' passed the test and was attempted.
C6_OfficialSiteAttempted ==
  /\ preferredMirror = "https://ziglang.org"
  /\ pc = "downloaded"
  /\ Len(tried) = 1
  /\ tried[1].mirror = "https://ziglang.org"

\* C7: the restore of the compressed artifact is asked under the key
\* 'setup-zig-tarball-<name>' of the run's version and host with an empty list
\* of restore keys, and a hit carries that key.
C7_ExactTarballRestore ==
  (call # None /\ call.op = "restore" /\ call.what = "tarball") =>
     /\ call.key = "setup-zig-tarball-" \o GetTarballName(version, host)
     /\ call.restoreKeys = <<>>
     /\ (~call.result.threw /\ call.result.value # Undefined) => call.result.value = call.key

\* C7: a later run of the same version and host hit the artifact a run before it
\* had saved.
C7_TarballHit ==
  /\ run = 2
  /\ call # None
  /\ call.op = "restore"
  /\ call.what = "tarball"
  /\ ~call.result.threw
  /\ call.result.value = call.key

\* C8: two inputs of getTarballName that differ in the version, in the OS or in
\* the architecture never yield the same name, and two that agree in all three
\* (and in the byte order of the architecture) yield the same name.
C8_NameInjective ==
  out # None =>
     /\ (arg[1] = arg[2] => out[1] = out[2])
     /\ (\/ arg[1].version # arg[2].version
         \/ arg[1].host.platform # arg[2].host.platform
         \/ arg[1].host.arch # arg[2].host.arch) => out[1] # out[2]

\* C8: two hosts whose architectures differ, neither in the table, got one name.
C8_SameNameTwoArchs ==
  /\ out # None
  /\ arg[1].version = arg[2].version
  /\ arg[1].host.platform = "linux" /\ arg[2].host.platform = "linux"
  /\ arg[1].host.arch = "ppc" /\ arg[2].host.arch = "s390"
  /\ out[1] = out[2]

FallbackCase ==
  /\ pc = "pre_done"
  /\ call # None
  /\ call.op = "restore"
  /\ call.what = "zig-cache"
  /\ ~call.result.threw
  /\ \A e \in blobCache : e.key # call.key
  /\ \E e \in blobCache : e.key = GetCachePrefix(version, host, job, "")

\* C10: in that case the build-cache restore matches that entry through the
\* restore key.
C10_FallbackMatches ==
  FallbackCase => call.result.value = GetCachePrefix(version, host, job, "")

\* C10: in that case the restore found nothing.
C10_FallbackMissed ==
  /\ FallbackCase
  /\ call.result.value = Undefined

\* The pre phase asked the blob cache for the build-cache directory and the exact
\* key had no match.
ExactKeyMissed ==
  /\ call # None
  /\ call.op = "restore"
  /\ call.what = "zig-cache"
  /\ \A e \in blobCache : e.key # call.key

OverLimit == size # NotMeasured /\ sizeLimit # 0 /\ size > sizeLimit

\* The post phase measured the build-cache directory and the limit is 0 or the
\* size is at most the limit.
WithinLimit == size # NotMeasured /\ (sizeLimit = 0 \/ size <= sizeLimit)

C13_ContentKept ==
  [][/\ (pc = "post" /\ pc' = "post_save" /\ (sizeLimit' = 0 \/ size' <= sizeLimit'))
        => zigCache' = zigCache
     /\ (pc = "post_save" /\ pc' = "run_done" /\ WithinLimit)
        => (zigCache' = zigCache /\ call'.content = zigCache.entries)]_vars

\* C13: a directory of exactly two MiB was measured under a limit of two MiB,
\* and the save was issued with its entry.
C13_AtLimitKept ==
  /\ pc = "run_done"
  /\ sizeLimit = 2 * 1024 * 1024
  /\ size = sizeLimit
  /\ call.op = "save"
  /\ call.what = "zig-cache"
  /\ call.content = zigCache.entries
  /\ zigCache.entries # {}

\* C14: in the post phase, if the build-cache directory does not exist or is not
\* readable, the phase ends at once: nothing is measured, the directory and the
\* blob cache are left as they are, no call of the blob cache is made and the
\* run is not marked failed.
C14_InaccessibleSkipped ==
  [][(pc = "post" /\ ~(zigCache.exists /\ zigCache.readable)) =>
        /\ pc' = "run_done"
        /\ size' = NotMeasured
        /\ zigCache' = zigCache
        /\ blobCache' = blobCache
        /\ call' = call
        /\ failed' = failed]_vars

\* C14: a post phase with use-cache found a build-cache directory with entries
\* that it could not read, and ended.
C14_UnreadableLeft ==
  /\ pc = "run_done"
  /\ use_cache
  /\ ~failed
  /\ zigCache.exists
  /\ ~zigCache.readable
  /\ zigCache.entries # {}
  /\ size = NotMeasured

(***************************************************************************)
(* Properties of the two caches in the run.                                *)
(***************************************************************************)

\* c is a call of the blob cache: op on the cache what.
IsCall(c, what, op) == c # None /\ c.what = what /\ c.op = op

\* The step is a call of the blob cache that threw.
CacheCallThrew(what, op) ==
  /\ call' # call
  /\ call' # None
  /\ call'.what = what
  /\ call'.op = op
  /\ call'.result.threw

\* C15: a call of the blob cache that throws never marks the run failed. After a
\* failed artifact restore the download from the sources is next; after a failed
\* artifact save the downloaded artifact stays in its slot and is what gets
\* installed; after a failed build-cache restore the pre phase is over, and
\* after a failed build-cache save the post phase is over.
C15_CacheErrorsNotFatal ==
  [][/\ (call' # call /\ call' # None /\ call'.result.threw) => failed' = failed
     /\ CacheCallThrew("tarball", "restore") => pc' = "download"
     /\ CacheCallThrew("tarball", "save") =>
          (pc' = "extract" /\ slot' = slot /\ slot' = call'.content)
     /\ (pc = "extract" /\ IsCall(call, "tarball", "save") /\ call.result.threw) =>
          (installed' = call.content /\ failed' = failed)
     /\ CacheCallThrew("zig-cache", "restore") => pc' = "pre_done"
     /\ CacheCallThrew("zig-cache", "save") => pc' = "run_done"]_vars

\* C15: a run whose artifact restore threw installed the release and ended its
\* post phase, with a build-cache save that threw too, without being marked
\* failed.
C15_SurvivedCacheErrors ==
  /\ pc = "run_done"
  /\ ~failed
  /\ installed = Payload(tarballFilename)
  /\ Entry(TarballCacheKey(tarballName), installed) \notin blobCache
  /\ call.op = "save"
  /\ call.what = "zig-cache"
  /\ call.result = Throw("cache service")

\* The artifact restore of the run returned the exact key.
TarballRestoreHit(c) ==
  /\ c # None
  /\ c.op = "restore"
  /\ c.what = "tarball"
  /\ c.result = Return(c.key)

\* The artifact restore of the run returned undefined.
TarballRestoreMissed(c) ==
  /\ c # None
  /\ c.op = "restore"
  /\ c.what = "tarball"
  /\ c.result = Return(Undefined)

\* C16: in retrieveTarball, a hit of the exact-key restore goes on to the
\* extraction with the blob cache as it was, and no source is attempted and no
\* artifact save issued in a run whose restore hit; a miss is followed by
\* downloadTarball, and the save is issued only after downloadTarball has returned
\* and its result has been copied into the slot, with the content of the slot and
\* under the key of the restore.
C16_HitSkipsMissSaves ==
  [][/\ (pc = "retrieve" /\ TarballRestoreHit(call')) =>
          (pc' = "extract" /\ blobCache' = blobCache /\ tried' = <<>>)
     /\ TarballRestoreHit(call) =>
          /\ pc' \notin {"download", "override", "mirrors", "canonical", "downloaded",
                         "tarball_save"}
          /\ ~IsCall(call', "tarball", "save")
     /\ (pc = "retrieve" /\ TarballRestoreMissed(call')) => pc' = "download"
     /\ pc' = "tarball_save" =>
          (pc = "downloaded" /\ ~dl.threw /\ slot' = dl.value.bytes /\ call' = call)
     /\ (call' # call /\ IsCall(call', "tarball", "save")) =>
          /\ pc = "tarball_save"
          /\ IsCall(call, "tarball", "restore")
          /\ call'.key = call.key
          /\ call'.content = slot]_vars

\* C16: after a miss the downloaded release was copied and saved under the key
\* of the restore.
C16_MissDownloadedAndSaved ==
  /\ pc = "extract"
  /\ call.op = "save"
  /\ call.what = "tarball"
  /\ call.result = Return(TarballCacheKey(tarballName))
  /\ slot = Payload(tarballFilename)
  /\ Entry(call.key, slot) \in blobCache

(***************************************************************************)
(* Properties of getVersion.                                               *)
(***************************************************************************)

\* v is a version string, neither null nor undefined.
IsVersionString(v) == v \notin {NullVersion, Undefined}

\* The step is the first getVersion() call of the invocation.
FirstCall == calls = 0 /\ calls' = 1

\* C17: within one invocation, once getVersion has returned a version string,
\* every later call returns the same string, fetches no index and does not read
\* the manifest, whatever the indexes and the manifest have become.
C17_VersionMemoized ==
  [][(/\ calls >= 1
      /\ calls' = calls + 1
      /\ ~out.threw
      /\ IsVersionString(out.value)) => (out' = out /\ effects' = effects)]_vars

\* C17: a second call returned what the first had resolved with one fetch,
\* although a resolution against the indexes and the manifest as they are now
\* would give something else.
C17_StableAcrossChange ==
  /\ calls = 2
  /\ ~out.threw
  /\ IsVersionString(out.value)
  /\ Len(effects.fetches) = 1
  /\ GetVersion(NullVersion, arg, world).result # out

\* The entries of an index other than 'master'.
Releases(keys) == {keys[i] : i \in 1..Len(keys)} \ {"master"}

\* major, minor and patch of an entry, as numbers.
Triple(key) == <<NumberPart(Split(key), 1), NumberPart(Split(key), 2), NumberPart(Split(key), 3)>>

\* a comes before b in the order by major, then minor, then patch.
TripleBefore(a, b) ==
  \/ a[1] < b[1]
  \/ (a[1] = b[1] /\ a[2] < b[2])
  \/ (a[1] = b[1] /\ a[2] = b[2] /\ a[3] < b[3])

\* The greatest release of an index, which depends on the set of its entries only.
GreatestRelease(keys) ==
  CHOOSE k \in Releases(keys) : \A other \in Releases(keys) : ~TripleBefore(Triple(k), Triple(other))

\* C18: for the specifier 'latest' and an index that can be fetched, getVersion
\* returns the entry other than 'master' that is greatest by major, then minor,
\* then patch as numbers, in whatever order the index lists its entries.
C18_LatestIsGreatest ==
  [][(FirstCall /\ arg = "latest" /\ world.versions.ok) =>
        /\ out' = Return(GreatestRelease(world.versions.keys))
        /\ out'.value # "master"]_vars

\* C18: 'latest' resolved to 0.10.1 from an index that lists it neither first nor
\* last and that lists 0.9.1, the greatest as a string, and 'master' too.
C18_LatestFromUnsortedIndex ==
  /\ calls = 1
  /\ arg = "latest"
  /\ world.versions.ok
  /\ out = Return("0.10.1")
  /\ "0.9.1" \in Releases(world.versions.keys)
  /\ world.versions.keys[1] \notin {"0.10.1", "master"}
  /\ world.versions.keys[Len(world.versions.keys)] \notin {"0.10.1", "master"}

\* The values the fields of the manifests have.
FieldValues == {"0.13.0", "0.15.1", "2024.11.0-mach", "2099.1.0-mach"}

\* The manifest text gives the field name the value v.
FieldIs(text, name, v) ==
  \/ Includes(text, "." \o name \o " = \"" \o v \o "\"")
  \/ Includes(text, "." \o name \o "=\"" \o v \o "\"")

\* The manifest text has the field name.
HasField(text, name) == \E v \in FieldValues : FieldIs(text, name, v)

\* With an empty specifier and a readable manifest whose nominated-build field
\* names an entry of a nominated-version index that can be fetched, that index
\* is the one fetch and the version it gives for the name is the result, with the
\* minimum-version field present or not.
NominatedFoundResolves ==
  [][(FirstCall /\ arg = "" /\ world.zon.readable /\ world.mach.ok) =>
        \A v \in FieldValues \cap DOMAIN world.mach.versions :
          FieldIs(world.zon.text, "mach_zig_version", v) =>
             /\ out' = Return(world.mach.versions[v])
             /\ effects'.fetches = <<MACH_VERSIONS_JSON>>]_vars

\* C19: with an empty specifier and a readable manifest, a manifest that has the
\* nominated-build field makes getVersion fetch the nominated-version index, and
\* a version it resolves is the one that index gives for the field's value, with
\* the minimum-version field present or not; a manifest that has the
\* minimum-version field only resolves to that field's value and nothing is
\* fetched.
C19_ManifestPriority ==
  [][(FirstCall /\ arg = "" /\ world.zon.readable) =>
        \A v \in FieldValues :
          /\ FieldIs(world.zon.text, "mach_zig_version", v) =>
               /\ effects'.fetches # <<>>
               /\ effects'.fetches[1] = MACH_VERSIONS_JSON
               /\ ~out'.threw =>
                    /\ world.mach.ok
                    /\ v \in DOMAIN world.mach.versions
                    /\ out' = Return(world.mach.versions[v])
          /\ (/\ FieldIs(world.zon.text, "minimum_zig_version", v)
              /\ ~HasField(world.zon.text, "mach_zig_version")) =>
               /\ out' = Return(v)
               /\ effects'.fetches = <<>>]_vars

\* C19: the manifest has both fields and the nominated-version index could not be
\* fetched; getVersion resolved to the latest release of the other index, which
\* is neither the nominated version nor the minimum version.
C19_NominatedNotResolvedByIndex ==
  /\ calls = 1
  /\ arg = ""
  /\ world.zon = Manifest(ZonMachThenMinimum)
  /\ ~world.mach.ok
  /\ world.versions.ok
  /\ out = Return(GreatestRelease(world.versions.keys))
  /\ effects = [fetches |-> <<MACH_VERSIONS_JSON, VERSIONS_JSON>>, reads |-> 1]

\* A manifest with the minimum-version field before the nominated-build field
\* resolved through the nominated-version index; one with the minimum-version
\* field only would have resolved to 0.13.0.
NominatedOverMinimum ==
  /\ calls = 1
  /\ arg = ""
  /\ world.zon = Manifest(ZonMinimumThenMach)
  /\ out = Return("0.14.0-dev.2577+271452d22")
  /\ effects = [fetches |-> <<MACH_VERSIONS_JSON>>, reads |-> 1]

\* The specifier is empty and the manifest has the minimum-version field only:
\* getVersion returned its value without a fetch.
MinimumVerbatim ==
  /\ calls = 1
  /\ arg = ""
  /\ world.zon = Manifest(ZonMinimum)
  /\ out = Return("0.13.0")
  /\ effects = [fetches |-> <<>>, reads |-> 1]

\* The nominated name of the invocation is name: the explicit specifier, or the
\* nominated-build field of the manifest read for an empty specifier.
NominatedName(name) ==
  \/ (arg = name /\ Includes(name, "mach"))
  \/ (arg = "" /\ world.zon.readable /\ FieldIs(world.zon.text, "mach_zig_version", name))

\* The nominated-version index cannot be fetched or does not hold name.
NotNominated(name) == ~world.mach.ok \/ name \notin DOMAIN world.mach.versions

\* C20: whenever the nominated name, explicit or of the manifest, is absent from
\* the nominated-version index, or that index cannot be fetched, getVersion
\* throws and the run is marked failed; no version is resolved.
C20_UnknownNominatedFails ==
  [][FirstCall =>
        \A name \in FieldValues \cup RawInputs :
          (NominatedName(name) /\ NotNominated(name)) =>
             (out'.threw /\ failed' /\ cached_version' = NullVersion)]_vars

\* C20: the manifest nominates a name the nominated-version index does not hold,
\* and getVersion returned the latest release of the other index.
C20_FellBackToLatest ==
  /\ calls = 1
  /\ arg = ""
  /\ world.zon = Manifest(ZonUnknownMach)
  /\ world.mach.ok
  /\ world.versions.ok
  /\ ~failed
  /\ out = Return(GreatestRelease(world.versions.keys))
  /\ effects.fetches = <<MACH_VERSIONS_JSON, VERSIONS_JSON>>

(***************************************************************************)
(* Properties of the artifact name.                                        *)
(***************************************************************************)

\* The two orders of the fields of the name, for a version and a host.
OsBeforeArch(v, h) ==
  "zig-" \o Lookup(PlatformTable, h.platform) \o "-" \o ArchToken(v, h) \o "-" \o v
ArchBeforeOs(v, h) ==
  "zig-" \o ArchToken(v, h) \o "-" \o Lookup(PlatformTable, h.platform) \o "-" \o v

\* The versions on the two sides of the change of scheme.
LegacyVersions == {"0.14.0", "0.15.0-dev.630+9a3540d61"}
CurrentVersions == {"0.14.1", "0.15.0-dev.631+9a3540d61"}

\* C21: getTarballName puts the OS before the architecture for 0.14.0 and for
\* the dev build 0.15.0-dev.630, and the architecture before the OS for 0.14.1
\* and for the dev build 0.15.0-dev.631.
C21_SchemeByVersion ==
  out # None =>
     \A i \in 1..2 :
        /\ arg[i].version \in LegacyVersions =>
              out[i] = OsBeforeArch(arg[i].version, arg[i].host)
        /\ arg[i].version \in CurrentVersions =>
              out[i] = ArchBeforeOs(arg[i].version, arg[i].host)

\* C21: the dev build 0.15.0-dev.630 on Linux x86_64 was named with the
\* architecture before the OS.
C21_Dev630ArchFirst ==
  /\ out # None
  /\ arg[1].version = "0.15.0-dev.630+9a3540d61"
  /\ arg[1].host = Host("linux", "x64", "LE")
  /\ out[1] = "zig-x86_64-linux-0.15.0-dev.630+9a3540d61"

\* The three other versions of the claim are named as it says.
SchemeOfOtherVersions ==
  out # None =>
     \A i \in 1..2 :
        /\ arg[i].version = "0.14.0" => out[i] = OsBeforeArch(arg[i].version, arg[i].host)
        /\ arg[i].version \in CurrentVersions =>
              out[i] = ArchBeforeOs(arg[i].version, arg[i].host)

\* The host is in both lookup tables of getTarballName.
Supported(h) == h.arch \in DOMAIN ArchTable /\ h.platform \in DOMAIN PlatformTable

\* What getTarballName returned is the name of an artifact.
ArtifactName(name) == StartsWith(name, "zig-")

\* C24: for a host whose OS or architecture is in no lookup table,
\* getTarballName returns no artifact name.
C24_UnsupportedHostFails ==
  out # None =>
     \A i \in 1..2 : ~Supported(arg[i].host) => ~ArtifactName(out[i])

\* C24: on a host whose OS and architecture are in neither table,
\* getTarballName returned a name.
C24_UnsupportedHostNamed ==
  /\ out # None
  /\ arg[1] = Target("0.15.1", Host("aix", "ppc", "BE"))
  /\ out[1] = "zig-undefined-undefined-0.15.1"

(***************************************************************************)
(* Properties of the order of versions.                                    *)
(***************************************************************************)

\* What a well-formed version writes: its three numbers, and its dev index ("" for
\* a release), read from the groups of the regular expression.
Numbers(v) ==
  <<ParseInt(VersionRegexExec(v)[2]), ParseInt(VersionRegexExec(v)[3]),
    ParseInt(VersionRegexExec(v)[4])>>
DevIndex(v) == VersionRegexExec(v)[5]
IsRelease(v) == VersionRegexExec(v) # <<>> /\ DevIndex(v) = ""
IsDev(v) == VersionRegexExec(v) # <<>> /\ DevIndex(v) # ""

\* C22: on releases of three numbers versionLessThan is irreflexive, asymmetric
\* and transitive, and it is true exactly when the first comes before the second
\* in the order by major, then minor, then patch.
C22_ReleaseOrder ==
  (out # None /\ \A i \in 1..3 : IsRelease(arg[i])) =>
     /\ \A i \in 1..3 : ~out[i][i]
     /\ \A i, j \in 1..3 : out[i][j] => ~out[j][i]
     /\ \A i, j, k \in 1..3 : (out[i][j] /\ out[j][k]) => out[i][k]
     /\ \A i, j \in 1..3 : out[i][j] <=> TripleBefore(Numbers(arg[i]), Numbers(arg[j]))

\* C22: 0.9.0, 0.10.0 and 1.0.0 were compared, in the order of their numbers,
\* which is not the order of their characters.
C22_NumericNotLexical ==
  /\ out # None
  /\ arg = <<"0.9.0", "0.10.0", "1.0.0">>
  /\ out[1][2] /\ out[2][3] /\ out[1][3]
  /\ ~out[2][1] /\ ~out[1][1]

\* C23: a dev build is less than the release of the same three numbers and the
\* release is not less than it, and of two dev builds of the same three numbers
\* the first is less exactly when its dev index is the smaller.
C23_DevBeforeRelease ==
  out # None =>
     \A i, j \in 1..3 :
        /\ (IsDev(arg[i]) /\ IsRelease(arg[j]) /\ Numbers(arg[i]) = Numbers(arg[j])) =>
              (out[i][j] /\ ~out[j][i])
        /\ (IsDev(arg[i]) /\ IsDev(arg[j]) /\ Numbers(arg[i]) = Numbers(arg[j])) =>
              (out[i][j] <=> ParseInt(DevIndex(arg[i])) < ParseInt(DevIndex(arg[j])))

\* C23: the dev build 0.15.0-dev.630 was found not less than the release 0.15.0,
\* and not less than the dev build 0.15.0-dev.631.
C23_DevNotBefore ==
  /\ out # None
  /\ arg = <<"0.15.0-dev.630+9a3540d61", "0.15.0", "0.15.0-dev.631+9a3540d61">>
  /\ ~out[1][2]
  /\ ~out[1][3]

(***************************************************************************)
(* Properties of the use-cache input in the run.                           *)
(***************************************************************************)

\* C29: a phase that reads the use-cache input as false asks nothing of the
\* blob cache for the build cache and leaves the build-cache directory
\* unmeasured and as it is: the pre phase is over without a restore, the post
\* phase without a check, a measure, a deletion or a save.
C29_FlagOffLeavesBuildCache ==
  [][(pc \in {"buildcache", "post"} /\ ~use_cache') =>
       /\ call' = call
       /\ blobCache' = blobCache
       /\ zigCache' = zigCache
       /\ size' = size /\ sizeLimit' = sizeLimit
       /\ pc = "buildcache" => pc' = "pre_done"
       /\ pc = "post" => pc' = "run_done"]_vars

\* C29: a run with use-cache false is over: its pre phase missed the compressed
\* artifact in the blob cache and saved it there, the job built into the
\* build-cache directory, and that directory was neither measured nor saved.
C29_FlagOffTarballCached ==
  /\ pc = "run_done"
  /\ ~failed
  /\ ~use_cache
  /\ IsCall(call, "tarball", "save")
  /\ ~call.result.threw
  /\ \E e \in blobCache : e.key = TarballCacheKey(tarballName)
  /\ zigCache.exists /\ zigCache.entries # {}
  /\ size = NotMeasured

(***************************************************************************)
(* Properties of the attempts of one downloadTarball call.                 *)
(***************************************************************************)

\* C30: the attempts of a downloadTarball call so far are at most one more than
\* there are mirrors; every attempt but the last has failed, so that none
\* follows a success; no source was attempted twice; and without an override
\* the attempts are, in order, the first of a permutation of the mirror list,
\* followed by the official site only after all of them.
C30_AttemptsInTurn ==
  /\ Len(tried) <= Len(MIRRORS) + 1
  /\ \A i \in 1..(Len(tried) - 1) : tried[i].threw
  /\ \A i, j \in 1..Len(tried) : i # j => tried[i].mirror # tried[j].mirror
  /\ (tried # <<>> /\ preferredMirror = "") =>
        /\ Len(shuffled) = Len(MIRRORS)
        /\ {shuffled[i] : i \in 1..Len(shuffled)} = MirrorSet
        /\ \A i \in 1..Len(tried) :
              tried[i].mirror = IF i <= Len(shuffled) THEN shuffled[i] ELSE CANONICAL
  /\ (tried # <<>> /\ preferredMirror # "") => tried = <<Tried(last)>>

\* C30: a downloadTarball call has returned after an attempt at each mirror and
\* one at the official site, the only one that succeeded.
C30_EachSourceOnce ==
  /\ pc = "downloaded"
  /\ preferredMirror = ""
  /\ Len(tried) = Len(MIRRORS) + 1
  /\ {tried[i].mirror : i \in 1..Len(MIRRORS)} = MirrorSet
  /\ tried[Len(tried)].mirror = CANONICAL
  /\ ~tried[Len(tried)].threw
  /\ ~dl.threw

(***************************************************************************)
(* Properties of the mirror override in the run.                           *)
(***************************************************************************)

\* downloadTarball has just thrown on a mirror input it forbids.
OverrideRejected ==
  /\ pc = "downloaded"
  /\ IsForbiddenMirror(preferredMirror)
  /\ dl # None
  /\ dl.threw

\* C25: when the pre phase fails on a forbidden mirror override, the run has
\* asked nothing of the blob cache before.
C25_RejectedBeforeNetwork == OverrideRejected => call = None

\* C25: the override https://ziglang.org/builds was rejected after the restore of
\* the compressed artifact had been asked of the blob cache and had missed.
C25_RejectedAfterRestore ==
  /\ OverrideRejected
  /\ preferredMirror = "https://ziglang.org/builds"
  /\ IsCall(call, "tarball", "restore")
  /\ call.result = Return(Undefined)

(***************************************************************************)
(* Properties of minisign.js.                                              *)
(***************************************************************************)

\* The three conditions of a valid record, on the arguments of the call.
KeyIdMatches == arg[2].key_id = arg[1].id
PrimaryVerifies ==
  Ed25519Verify(arg[2].signature,
                IF arg[2].algorithm = "ED" THEN Blake2b(arg[3]) ELSE arg[3],
                arg[1].key)
GlobalVerifies ==
  Ed25519Verify(arg[2].global_signature, arg[2].signature \o arg[2].trusted_comment, arg[1].key)

\* The record is valid for the file as far as its key id and its primary
\* signature go, and its trusted comment and global signature are those of
\* another file validly signed with the same key.
CrossedRecord ==
  /\ KeyIdMatches
  /\ PrimaryVerifies
  /\ \E j \in 1..Len(SignedFiles) :
        /\ SignedFiles[j].key = arg[1].key
        /\ arg[2].signature # SigToken(j)
        /\ arg[2].trusted_comment = SignedFiles[j].comment
        /\ arg[2].global_signature = GlobalSigToken(j)

\* C26: verifySignature resolves to a boolean, which is true exactly when the
\* key id of the record is that of the key, the primary signature verifies over
\* the signed message and the global signature verifies over the primary
\* signature followed by the trusted comment; for a record that pairs the
\* primary signature of one signed file with the trusted comment and the global
\* signature of another it is false.
C26_VerifiesAllThree ==
  out # None =>
     /\ out.resolved \in BOOLEAN
     /\ out.resolved <=> (KeyIdMatches /\ PrimaryVerifies /\ GlobalVerifies)
     /\ CrossedRecord => ~out.resolved

\* C26: the primary signature of the first release with the trusted comment and
\* the global signature of the second, verified against the first release under
\* the trust anchor, was found invalid.
C26_CrossedRejected ==
  /\ out # None
  /\ ~out.resolved
  /\ CrossedRecord
  /\ arg[1].id = ZsfKeyId
  /\ arg[2].signature = SigToken(1)
  /\ arg[2].trusted_comment = HashedComment(ReleaseFiles[2])
  /\ arg[2].global_signature = GlobalSigToken(2)
  /\ arg[3] = Payload(ReleaseFiles[1])

\* C27: parseSignature throws for every file in which bytes follow the last
\* line, whatever their number.
C27_TrailingBytesThrow == (out # None /\ arg.extra # "") => out.threw

\* C27: a file as minisign writes it, followed by one more byte, was parsed and
\* a record was returned.
C27_TrailingByteAccepted ==
  /\ out # None
  /\ arg.header = "none"
  /\ arg.nl = "\n"
  /\ arg.extra = "x"
  /\ ~out.threw

\* As many bytes after the last line as the signature line is longer than the
\* last line are accepted, and one more is rejected.
TrailingBytesSlack ==
  (out # None /\ arg.extra # "") =>
     (out.threw <=> Len(arg.extra) > Len(SigToken(arg.signed)) + 10 - Len(GlobalSigToken(arg.signed)))

\* The fields of the file, as they went into it.
FieldsOf(a) ==
  [algorithm        |-> SignedFiles[a.signed].alg,
   key_id           |-> SignedFiles[a.signed].key_id,
   signature        |-> SigToken(a.signed),
   trusted_comment  |-> SignedFiles[a.signed].comment,
   global_signature |-> GlobalSigToken(a.signed)]

ClearedAndSaveIssued ==
  /\ pc = "run_done"
  /\ OverLimit
  /\ IsCall(call, "zig-cache", "save")

\* C31: after a post phase that cleared an oversized build-cache directory and
\* issued its save, an entry the blob cache holds under the key of the save is
\* the emptied directory, which is what the next restore of that key yields.
C31_ClearedEntryStored ==
  ClearedAndSaveIssued =>
     \A e \in RestoreMatches(blobCache, call.key, <<>>) : e.content = {}

\* C31: the directory was cleared and its save was issued and refused, and the
\* blob cache holds under the key of the save the content of an earlier run.
C31_EarlierContentKept ==
  /\ ClearedAndSaveIssued
  /\ call.content = {}
  /\ call.result.threw
  /\ run = 2
  /\ \E e \in RestoreMatches(blobCache, call.key, <<>>) : e.content # {}

\* The post phase of a job issued its save after the pre phase of the job had asked
\* its restore.
SavedAfterRestore ==
  /\ pc = "phase_done"
  /\ out # None
  /\ IsCall(call, "zig-cache", "save")

\* C32: the key under which the post phase of a job saves the build-cache
\* directory is the exact key of the restore of the pre phase of the job,
\* whatever the specifier and whatever became of the indexes in between.
C32_SaveKeyIsRestoreKey == SavedAfterRestore => call.key = out.key

\* C32: with the specifier 'master' and a master entry that moved on while the
\* job ran, the post phase saved under another key than the pre phase restored.
C32_MasterMovedOn ==
  /\ SavedAfterRestore
  /\ arg = "master"
  /\ out.key = "setup-zig-cache-v2-build_test-zig-x86_64-linux-0.16.0-dev.27+83f773fc6--"
  /\ call.key = "setup-zig-cache-v2-build_test-zig-x86_64-linux-0.17.0-dev.1+0123456789--"

\* With an explicit version, or a manifest that gives a minimum version and no
\* nominated one, the two keys are the same.
KeyStableWithoutIndex ==
  (/\ SavedAfterRestore
   /\ \/ arg = "0.14.1"
      \/ arg = "" /\ world.zon.readable /\ world.zon.text = ZonMinimum) => call.key = out.key

(***************************************************************************)
(* Properties of the artifact cache from one run to the next.              *)
(***************************************************************************)

\* The bytes a source can serve.
ServedBytes == {Payload(ReleaseFiles[i]) : i \in 1..Len(ReleaseFiles)} \cup {EvilPayload}

\* downloadFromMirror returns a path to the bytes when asked for the file, for
\* some source and some way it behaves.
PassedFor(file, bytes) ==
  \E o \in Outcomes : o[1][3] = file /\ ~o[2].threw /\ o[2].value.bytes = bytes

\* Whether that is so, for the key of the artifact cache of each target, the file
\* of the target and each of the bytes: the predicate, evaluated once.
PassedUnderKey ==
  {<<<<TarballCacheKey(GetTarballName(t.version, t.host)), bytes>>,
     PassedFor(GetTarballName(t.version, t.host) \o GetTarballExt(t.host), bytes)>> :
     t \in Targets, bytes \in ServedBytes}

\* The entries of the artifact cache.
TarballEntries(cache) == {e \in cache : StartsWith(e.key, "setup-zig-tarball-")}

\* Every entry of the artifact cache holds bytes that downloadFromMirror returns
\* for the file of its key.
ArtifactEntriesPassed ==
  \A e \in TarballEntries(blobCache) : At(PassedUnderKey, <<e.key, e.content>>)

\* C33: the copy into the local cache slot and the save under the artifact key
\* follow only a downloadTarball that returned, in the same run, what
\* downloadFromMirror returned for the file of the run; the save stores the
\* bytes copied under the key of the run's artifact, and nothing else adds an
\* entry to the artifact cache; when downloadTarball failed, nothing is copied,
\* nothing is saved and the run is marked failed.
C33_SavedOnlyAfterDownload ==
  [][/\ (pc' = "tarball_save" /\ pc # "tarball_save") =>
          (/\ pc = "downloaded"
           /\ ~dl.threw
           /\ dl = last.result
           /\ last.result = DownloadFromMirror(last.mirror, tarballFilename,
                                               ServedBy(last.kind, tarballFilename))
           /\ slot' = dl.value.bytes)
     /\ TarballEntries(blobCache') # TarballEntries(blobCache) =>
          (/\ pc = "tarball_save"
           /\ blobCache' = blobCache \cup {Entry(TarballCacheKey(tarballName), slot)})
     /\ (pc = "downloaded" /\ dl.threw) =>
          (slot' = slot /\ blobCache' = blobCache /\ failed' /\ pc' = "pre_done")]_vars

\* C33: in a second run every source failed after the restore had thrown: the
\* run is marked failed, the local cache slot is empty and the artifact cache
\* holds what the first run saved, for another artifact.
C33_AllFailedNothingSaved ==
  /\ run = 2
  /\ pc = "pre_done"
  /\ failed
  /\ slot = NoBytes
  /\ IsCall(call, "tarball", "restore")
  /\ TarballEntries(blobCache) # {}
  /\ \A e \in blobCache : e.key # TarballCacheKey(tarballName)

(***************************************************************************)
(* Properties of the clearing of the build-cache directory.                *)
(***************************************************************************)

\* The deletions rmDirContents started, by their state.
Deletions(state) == IF pc = "clear_start" THEN {} ELSE {e \in DOMAIN out : out[e] = state}

\* C34: the deletions of rmDirContents are under way together; the save is
\* issued only when every one of them has completed, with the directory empty;
\* and once one of them has failed, the phase is marked failed and no save is
\* issued.
C34_SaveAfterAllDeleted ==
  /\ pc = "clearing" => \A e \in zigCache.entries : out[e] \in {"pending", "failed"}
  /\ pc \in {"clear_save", "clear_done"} =>
        /\ Deletions("pending") = {} /\ Deletions("failed") = {}
        /\ zigCache.entries = {}
        /\ ~failed
  /\ call # None => (call.content = {} /\ pc = "clear_done")
  /\ Deletions("failed") # {} => (failed /\ call = None /\ pc = "clear_failed")

\* C34: of three deletions under way together one has completed, one has
\* failed and one is still pending; the phase is marked failed and no save was
\* issued for the partly cleared directory.
C34_PartlyClearedNotSaved ==
  /\ pc = "clear_failed"
  /\ failed
  /\ call = None
  /\ Deletions("done") # {} /\ Deletions("failed") # {} /\ Deletions("pending") # {}
  /\ zigCache.entries # {} /\ zigCache.entries # ClearEntries

(***************************************************************************)
(* Properties of the order of the pre phase.                               *)
(***************************************************************************)

\* The state after a pre phase that ended in the catch of main(): nothing is on
\* PATH and no restore of the build cache was asked.
NothingInstalled == installed = NoBytes /\ ~IsCall(call, "zig-cache", "restore")

\* C35: the installation directory is added to PATH only by the step that
\* extracts the artifact, which a cache hit or a download that passed has put
\* in place; a version resolution or a fetch that throws marks the run failed
\* and ends the pre phase, and in a failed run nothing is on PATH and no restore
\* of the build cache was asked.
C35_PathOnlyAfterArtifact ==
  [][/\ (installed' # installed /\ installed' # NoBytes) =>
           (pc = "extract" /\ slot # NoBytes /\ installed' = slot)
     /\ (pc = "idle" /\ pc' # "retrieve") => (failed' /\ pc' = "pre_done")
     /\ (pc = "downloaded" /\ dl.threw) => (failed' /\ pc' = "pre_done")
     /\ (failed' /\ ~failed) => pc' = "pre_done"
     /\ failed' => NothingInstalled']_vars

\* C35: the version could not be resolved: the run is marked failed at the end
\* of the pre phase, with nothing on PATH and no call to the cache.
C35_ResolutionFailed ==
  /\ pc = "pre_done"
  /\ failed
  /\ version = ""
  /\ installed = NoBytes
  /\ call = None

(***************************************************************************)
(* Properties of the architecture token for ARM.                           *)
(***************************************************************************)

\* The order on well-formed versions: by the three numbers, and of two versions
\* of the same three numbers a dev build before the release, and the dev build
\* of the smaller index before the other.
OrdersBefore(v, w) ==
  \/ TripleBefore(Numbers(v), Numbers(w))
  \/ /\ Numbers(v) = Numbers(w)
     /\ IsDev(v)
     /\ IsRelease(w) \/ ParseInt(DevIndex(v)) < ParseInt(DevIndex(w))

\* The token for ARM by the order of versions.
ArmToken(v) == IF OrdersBefore(v, "0.15.1") THEN "armv7a" ELSE "arm"

\* C36: on an ARM host of a known OS the name getTarballName returns has the
\* token armv7a exactly when the version orders before 0.15.1, dev builds of
\* 0.15.1 included, and the token arm otherwise, in either order of the fields.
C36_ArmTokenByOrder ==
  out # None =>
     \A i \in 1..2 :
        (arg[i].host.arch = "arm" /\ Supported(arg[i].host)) =>
           LET v == arg[i].version
               platform == Lookup(PlatformTable, arg[i].host.platform)
           IN  out[i] \in {"zig-" \o ArmToken(v) \o "-" \o platform \o "-" \o v,
                           "zig-" \o platform \o "-" \o ArmToken(v) \o "-" \o v}

\* C36: the dev build 0.15.1-dev.5 on ARM Linux was named with the token arm.
C36_DevOf0151NamedArm ==
  /\ out # None
  /\ arg[1] = Target("0.15.1-dev.5+9a3540d61", Host("linux", "arm", "LE"))
  /\ OrdersBefore(arg[1].version, "0.15.1")
  /\ out[1] = "zig-arm-linux-0.15.1-dev.5+9a3540d61"

\* Every other version of the naming is given the token of the order.
ArmTokenOfOtherVersions ==
  out # None =>
     \A i \in 1..2 :
        (arg[i].host.arch = "arm" /\ Supported(arg[i].host)
            /\ arg[i].version # "0.15.1-dev.5+9a3540d61") =>
           LET v == arg[i].version
               platform == Lookup(PlatformTable, arg[i].host.platform)
           IN  out[i] \in {"zig-" \o ArmToken(v) \o "-" \o platform \o "-" \o v,
                           "zig-" \o platform \o "-" \o ArmToken(v) \o "-" \o v}

(***************************************************************************)
(* Properties of the hashed and the legacy mode of a signature.            *)
(***************************************************************************)

\* The signed files whose primary signature is the one of the record, made over
\* the hash of the payload (hashed mode) or over the payload itself.
MadeOverHash == {i \in 1..Len(SignedFiles) :
                   arg[2].signature = SigToken(i) /\ SignedFiles[i].alg = "ED"}
MadeOverRaw == {i \in 1..Len(SignedFiles) :
                  arg[2].signature = SigToken(i) /\ SignedFiles[i].alg # "ED"}

\* What the signer signed is, for the tag of the record, what the content gives:
\* its hash under the tag ED, its bytes under every other tag.
SignedWhatTagGives ==
  \E i \in 1..Len(SignedFiles) :
     /\ arg[2].signature = SigToken(i)
     /\ SignedContentOf(SignedFiles[i]) =
           (IF arg[2].algorithm = "ED" THEN Blake2b(arg[3]) ELSE arg[3])

\* C37: verifySignature resolves to true only when the primary signature was
\* made over the hash of the content and the tag is ED, or over the bytes of the
\* content and the tag is another; a signature made over the payload itself is
\* never accepted under the tag ED, nor one made over the hash under another tag.
C37_TagSelectsSignedContent ==
  out # None =>
     /\ out.resolved => SignedWhatTagGives
     /\ (MadeOverRaw # {} /\ arg[2].algorithm = "ED") => ~out.resolved
     /\ (MadeOverHash # {} /\ arg[2].algorithm # "ED") => ~out.resolved

\* C37: the legacy signature of a release by the trust anchor, its tag changed to
\* ED and all else as signed, was rejected for the bytes of that release.
C37_RawUnderHashedTagRejected ==
  /\ out # None
  /\ arg[1] = [id |-> ZsfKeyId, key |-> ZsfPubKey]
  /\ arg[2] = [algorithm        |-> "ED",
               key_id           |-> ZsfKeyId,
               signature        |-> SigToken(3),
               trusted_comment  |-> SignedFiles[3].comment,
               global_signature |-> GlobalSigToken(3)]
  /\ SignedFiles[3].alg = "Ed"
  /\ arg[3] = SignedFiles[3].payload
  /\ ~out.resolved

\* The legacy signature under its own tag, and under a tag that is neither, is
\* accepted for the bytes signed.
LegacyAcceptedUnderOtherTags ==
  (/\ out # None
   /\ arg[1] = [id |-> ZsfKeyId, key |-> ZsfPubKey]
   /\ arg[2].key_id = ZsfKeyId
   /\ arg[2].algorithm # "ED"
   /\ arg[2].signature = SigToken(3)
   /\ arg[2].trusted_comment = SignedFiles[3].comment
   /\ arg[2].global_signature = GlobalSigToken(3)
   /\ arg[3] = SignedFiles[3].payload) => out.resolved

(***************************************************************************)
(* Properties of the outputs of the build-cache restore.                   *)
(***************************************************************************)

\* The pre phase has ended after the restore of the build cache.
RestoredBuildCache ==
  pc = "pre_done" /\ ~failed /\ use_cache /\ IsCall(call, "zig-cache", "restore")

\* C38: after the restore of the build cache, cache-hit is 'true' exactly when
\* the restore returned the key of an entry, and cache-key-used is then that
\* key, which is the exact key or starts with the fallback key; after a miss
\* the outputs are 'false' and 'none', after a restore that threw 'false' and
\* 'error'; and without use-cache neither output is set.
C38_OutputsReportRestore ==
  /\ RestoredBuildCache =>
        /\ out # None
        /\ out["cache-hit"] \in {"true", "false"}
        /\ out["cache-hit"] = "true" <=>
              (~call.result.threw /\ \E e \in blobCache : e.key = call.result.value)
        /\ out["cache-hit"] = "true" =>
              /\ out["cache-key-used"] = call.result.value
              /\ \/ call.result.value = call.key
                 \/ StartsWith(call.result.value, call.restoreKeys[1])
        /\ (~call.result.threw /\ out["cache-hit"] = "false") => out["cache-key-used"] = "none"
        /\ call.result.threw => (out["cache-hit"] = "false" /\ out["cache-key-used"] = "error")
  /\ (pc = "pre_done" /\ ~use_cache) => out = None

\* C38: the restore of the second run returned the key the first run saved,
\* and the outputs are 'true' and that key.
C38_HitReported ==
  /\ RestoredBuildCache
  /\ run = 2
  /\ ~call.result.threw
  /\ call.result.value = call.key
  /\ \E e \in blobCache : e.key = call.key
  /\ out = Outputs("true", call.key)

\* After a miss and after a restore that threw, the outputs reached.
MissReported ==
  RestoredBuildCache /\ call.result = Return(Undefined) /\ out = Outputs("false", "none")
ErrorReported ==
  RestoredBuildCache /\ call.result.threw /\ out = Outputs("false", "error")

====
